---------------------------- MODULE Spec2Model ----------------------------
(***************************************************************************)
(* Model of the two crawler scripts financial.py (EastMoneyCrawler) and    *)
(* medical.py (MedicalDataCrawler).                                        *)
(*                                                                         *)
(* One run of the model is one crawler object on which one public          *)
(* operation is invoked (Spec), or a sequence of direct persistence calls  *)
(* interleaved with the passing of time (SpecSave).  An operation is a     *)
(* deterministic function of its arguments and of what the environment     *)
(* answers: the HTTP responses, which file writes fail, and how long an    *)
(* I/O step takes.  The actions draw these from bounded sets.              *)
(*                                                                         *)
(* Python sequences are 0-based, TLA+ sequences 1-based: fields[k] of the  *)
(* source is fields[k+1] here.  Column names are given in English, the     *)
(* source's Chinese names are listed where the columns are defined.        *)
(***************************************************************************)
EXTENDS Integers, Sequences, FiniteSets, TLC

VARIABLES
    clock,   \* wall clock, in ticks of 1/TicksPerSec second
    disk,    \* the files of save_path
    pc,      \* "ready": no operation invoked yet; "done": the operation ended
    call,    \* the operation invoked and its arguments
    result,  \* how it ended: the returned table or the exception raised
    trace,   \* requests, sleeps, caught exceptions and saves, in order
    saves    \* one record per invocation of _save_data, in order

vars == <<clock, disk, pc, call, result, trace, saves>>

---------------------------------------------------------------------------
(* Bounds of the model *)

TicksPerSec == 2      \* clock resolution
MaxClock == 4         \* SpecSave: the clock stops here
MaxSaveCalls == 3     \* SpecSave: persistence calls per run
MaxKlines == 2        \* records in one klines payload
MaxDur == 1           \* ticks one I/O step (request, file write) may take

SecPerMin == 60

Min(S) == CHOOSE x \in S : \A y \in S : x <= y

RECURSIVE SeqsUpTo(_, _)
SeqsUpTo(S, n) ==
    IF n = 0 THEN {<<>>}
    ELSE LET shorter == SeqsUpTo(S, n - 1)
         IN  shorter \cup {Append(s, x) : s \in {t \in shorter : Len(t) = n - 1}, x \in S}

---------------------------------------------------------------------------
(* Cell values and tables (pandas DataFrame) *)

Null == [kind |-> "null", num |-> 0, text |-> ""]
Num(n) == [kind |-> "num", num |-> n, text |-> ""]
Text(s) == [kind |-> "text", num |-> 0, text |-> s]
\* datetime.now().strftime('%Y-%m-%d %H:%M:%S'): the clock at second resolution
NowText(c) == [kind |-> "time", num |-> c \div TicksPerSec, text |-> ""]

\* pd.DataFrame(): no columns, no rows
EmptyFrame == [columns |-> <<>>, rows |-> <<>>]

Empty(df) == Len(df.rows) = 0

Range(s) == {s[i] : i \in 1..Len(s)}

\* where column c first occurs in the sequences colseqs: <<sequence, position>>
FirstAt(colseqs, c) ==
    LET k == Min({i \in 1..Len(colseqs) : c \in Range(colseqs[i])})
    IN  <<k, Min({p \in 1..Len(colseqs[k]) : colseqs[k][p] = c})>>

Before(a, b) == a[1] < b[1] \/ (a[1] = b[1] /\ a[2] < b[2])

\* the columns of the sequences colseqs, in the order of their first occurrence
UnionColumns(colseqs) ==
    IF \A i \in 1..Len(colseqs) : colseqs[i] = colseqs[1] THEN
        IF colseqs = <<>> THEN <<>> ELSE colseqs[1]
    ELSE
        LET all == UNION {Range(colseqs[i]) : i \in 1..Len(colseqs)}
            placed == {<<c, FirstAt(colseqs, c)>> : c \in all}
            ranked == {<<pl[1], Cardinality({q \in placed : Before(q[2], pl[2])})>> :
                          pl \in placed}
        IN  [n \in 1..Cardinality(all) |-> (CHOOSE r \in ranked : r[2] = n - 1)[1]]

\* A table is its columns and its rows; a row maps the columns it was built
\* with to their values, and a cell of a column the row lacks is NaN.
Cell(df, i, c) == IF c \in DOMAIN df.rows[i] THEN df.rows[i][c] ELSE Null

\* pd.DataFrame(list of dicts): dicts is a sequence of [cols, row] pairs
DataFrame(dicts) ==
    [columns |-> UnionColumns([i \in 1..Len(dicts) |-> dicts[i].cols]),
     rows |-> [i \in 1..Len(dicts) |-> dicts[i].row]]

\* df[col] = value
WithColumn(df, col, value) ==
    [columns |-> UnionColumns(<<df.columns, <<col>> >>),
     rows |-> [i \in 1..Len(df.rows) |->
                 [c \in DOMAIN df.rows[i] \cup {col} |->
                     IF c = col THEN value ELSE df.rows[i][c]]]]

RECURSIVE ConcatRows(_)
\* the rows of frames[1], frames[2], ... one after the other
ConcatRows(frames) ==
    IF frames = <<>> THEN <<>> ELSE Head(frames).rows \o ConcatRows(Tail(frames))

\* pd.concat(frames, ignore_index=True): union of the columns, NaN where missing
Concat(frames) ==
    [columns |-> UnionColumns([i \in 1..Len(frames) |-> frames[i].columns]),
     rows |-> ConcatRows(frames)]

---------------------------------------------------------------------------
(* Execution context threaded through one operation *)

\* ctx.fails[k] is the format at which the k-th _save_data of the operation
\* fails (1 = first format written, ...), 0 when it does not fail
\* ctx.rand is what random.uniform draws, as a fraction (0 or 1) of its range
NewCtx(c, d, fails, dur, rand) ==
    [clock |-> c, disk |-> d, trace |-> <<>>, saves |-> <<>>,
     fails |-> fails, dur |-> dur, rand |-> rand]

\* what is a tuple of strings
Ev(ev, what) == [ev |-> ev, what |-> what]

Log(ctx, ev, what) == [ctx EXCEPT !.trace = Append(@, Ev(ev, what))]

\* time.sleep(ticks / TicksPerSec)
Sleep(ctx, ticks) == [Log(ctx, "sleep", <<>>) EXCEPT !.clock = @ + ticks]

\* time.sleep(random.uniform(lo, hi))
RandomSleep(ctx, lo, hi) == Sleep(ctx, (lo + ctx.rand * (hi - lo)) * TicksPerSec)

NumRequests(ctx) == Cardinality({i \in 1..Len(ctx.trace) : ctx.trace[i].ev = "request"})

\* session.get(...): the request is issued and takes ctx.dur ticks
Request(ctx, what) == [Log(ctx, "request", what) EXCEPT !.clock = @ + ctx.dur]

Returned(ctx, df) == [ctx |-> ctx, kind |-> "return", exc |-> "none", df |-> df]
Raised(ctx, exc) == [ctx |-> ctx, kind |-> "raise", exc |-> exc, df |-> EmptyFrame]

---------------------------------------------------------------------------
(* _save_data *)

\* variant of Timestamp: the format '%Y%m%d_%H%M', without the seconds
TimestampMinutes(c) == <<(c \div TicksPerSec) \div SecPerMin, 0>>

\* datetime.now().strftime('%Y%m%d_%H%M%S'): minute part and second part
Timestamp(c) ==
    <<(c \div TicksPerSec) \div SecPerMin, (c \div TicksPerSec) % SecPerMin>>

FileName(name, ts, ext) == <<name, ts, ext>>

\* variant of FinFormats: the to_json call placed first
JsonFirst == <<"json", "csv", "xlsx">>

\* the formats each script writes, in the order of the to_* calls
FinFormats == <<"csv", "xlsx", "json">>
MedFormats == <<"csv", "xlsx">>

\* the timestamp in the name of the i-th file of a persistence call that
\* starts at clock start and whose writes take dur ticks each: read once
FileStamp(start, dur, i) == Timestamp(start)

\* One persistence call: the formats are written in order; the write numbered
\* failAt raises and leaves the later ones undone.  A write that raises is
\* taken to leave no file.  Returns [ctx, exc].
SaveData(ctx, df, name, formats) ==
    LET n == Len(ctx.saves) + 1
        failAt == IF n <= Len(ctx.fails) THEN ctx.fails[n] ELSE 0
        fails == failAt \in 1..Len(formats)
        nOk == IF fails THEN failAt - 1 ELSE Len(formats)
        files == {[path |-> FileName(name, FileStamp(ctx.clock, ctx.dur, i), formats[i]),
                   rows |-> Len(df.rows), by |-> n] : i \in 1..nOk}
        paths == {f.path : f \in files}
        events == <<Ev("save", name)>>
                  \o [i \in 1..nOk |-> Ev("write", <<formats[i]>>)]
                  \o (IF fails THEN <<Ev("writefail", <<formats[failAt]>>)>> ELSE <<>>)
        exc == IF fails THEN "WriteError" ELSE "none"
        rec == [name |-> name, df |-> df, ts |-> Timestamp(ctx.clock), at |-> ctx.clock,
                formats |-> formats, written |-> SubSeq(formats, 1, nOk),
                paths |-> paths, exc |-> exc]
    IN  [ctx |-> [ctx EXCEPT !.trace = @ \o events,
                             !.disk = {f \in @ : f.path \notin paths} \cup files,
                             !.clock = @ + nOk * ctx.dur,
                             !.saves = Append(@, rec)],
         exc |-> exc]

\* EastMoneyCrawler._save_data
FinSaveData(ctx, df, name) == SaveData(ctx, df, name, FinFormats)

\* MedicalDataCrawler._save_data
MedSaveData(ctx, df, name) == SaveData(ctx, df, name, MedFormats)

\* a _save_data call outside any try block, followed by `return df`: what the
\* call raises leaves the operation (s is what the call returned)
SavedOrRaised(s, df) ==
    IF s.exc # "none" THEN Raised(s.ctx, s.exc) ELSE Returned(s.ctx, df)

---------------------------------------------------------------------------
(* Environment of the financial script: payloads of the upstream service *)

Codes == {"000001", "600000"}

\* '0' if stock_code.startswith(('0', '3')) else '1'
Market(code) == IF code \in {"000001", "300521"} THEN "0" ELSE "1"

\* raw tokens of a comma-separated record: a number, the sentinel, a malformed one
NumTokens == {"7"}
Sentinel == "-"

\* float(tok), defined for the tokens float() accepts
Float(tok) == IF tok = "7" THEN 7 ELSE 0

\* a record of n fields, all numeric except field pos, which holds tok
Rec(n, pos, tok) ==
    [i \in 1..n |-> IF i = 1 THEN "2024-01-02" ELSE IF i = pos THEN tok ELSE "7"]

\* kline.split(',') of the records the service may send: a complete record
\* (15 fields), one with the sentinel, one with a malformed token, a short one
Records == {Rec(15, 2, "7"), Rec(15, 2, Sentinel), Rec(15, 9, "abc"), Rec(9, 2, "7")}

KlineLists == SeqsUpTo(Records, MaxKlines)

Statuses == {"exc", "200", "204", "404"}

\* the keys of one entry of data['data']['diff']
StockKeys == {"f12", "f14", "f2", "f3", "f4", "f5", "f6", "f7", "f15", "f16",
              "f17", "f18", "f10", "f8", "f9", "f23", "f20", "f21"}

Stock(code, keys) ==
    [k \in keys |-> IF k = "f12" THEN Text(code)
                    ELSE IF k = "f14" THEN Text("name")
                    ELSE IF k = "f2" THEN Text("-") ELSE Num(7)]

Stocks == {Stock(c, StockKeys) : c \in Codes} \cup {Stock("000001", StockKeys \ {"f23"})}

\* a response: status "exc" is a timeout or connection error raised by
\* session.get; kind is what the body parses to: "garbled" (not JSON/JSONP),
\* "nodata" (no 'data' key), "null" (data['data'] is null), "data"
Response(status, kind, items, hasname) ==
    [status |-> status, kind |-> kind, items |-> items, hasname |-> hasname]

NoBody(status) == Response(status, "garbled", <<>>, FALSE)

StockResponses ==
    {NoBody(s) : s \in Statuses \ {"200"}}
    \cup {Response("200", k, <<>>, FALSE) : k \in {"garbled", "nodata", "null", "data"}}
    \cup {Response("200", "data", d, FALSE) : d \in SeqsUpTo(Stocks, MaxKlines)}

KlineResponses ==
    {NoBody(s) : s \in Statuses \ {"200"}}
    \cup {Response("200", k, <<>>, FALSE) : k \in {"garbled", "nodata", "null"}}
    \cup {Response("200", "data", l, n) : l \in KlineLists, n \in BOOLEAN}

FlowResponses ==
    {NoBody(s) : s \in Statuses \ {"200"}}
    \cup {Response("200", k, <<>>, FALSE) : k \in {"garbled", "nodata", "null"}}
    \cup {Response("200", "data", l, FALSE) : l \in KlineLists}

BackupResponses == {NoBody(s) : s \in Statuses \ {"204"}}

\* in an operation that issues several requests, the k-th request is answered
\* by answers[k], cyclically
Answer(answers, k) == answers[((k - 1) % Len(answers)) + 1]

\* which write of each successive _save_data fails (0: none): an operation
\* with one save, get_financial_data with up to three
OneFail == [1..1 -> 0..3]
\* a later save of get_financial_data happens only after the earlier one failed
FailSchedules == {f \in [1..3 -> 0..3] : \A k \in 1..2 : f[k] = 0 => f[k + 1] = 0}

---------------------------------------------------------------------------
(* EastMoneyCrawler.get_stock_list *)

\* column, key of the source entry.  Columns are, in the source's order:
\* stock code, stock name, last price, change percent, change amount, volume,
\* turnover, amplitude, high, low, open, previous close, volume ratio,
\* turnover rate, P/E, P/B, total market value, circulating market value
StockColumns ==
    << <<"stock_code", "f12">>, <<"stock_name", "f14">>, <<"last_price", "f2">>,
       <<"change_pct", "f3">>, <<"change_amt", "f4">>, <<"volume", "f5">>,
       <<"turnover", "f6">>, <<"amplitude", "f7">>, <<"high", "f15">>,
       <<"low", "f16">>, <<"open", "f17">>, <<"prev_close", "f18">>,
       <<"volume_ratio", "f10">>, <<"turnover_rate", "f8">>, <<"pe", "f9">>,
       <<"pb", "f23">>, <<"total_value", "f20">>, <<"float_value", "f21">> >>

StockInfoColumns == [i \in 1..Len(StockColumns) |-> StockColumns[i][1]] \o <<"update_time">>

\* "none", or the exception building stock_info raises
StockInfoExc(stock) ==
    IF \E i \in 1..Len(StockColumns) : StockColumns[i][2] \notin DOMAIN stock
    THEN "KeyError" ELSE "none"

StockInfo(stock, now) ==
    [cols |-> StockInfoColumns,
     row |-> [c \in Range(StockInfoColumns) |->
                IF c = "update_time" THEN NowText(now)
                ELSE LET i == CHOOSE j \in 1..Len(StockColumns) : StockColumns[j][1] = c
                     IN  stock[StockColumns[i][2]]]]

\* variant of CaughtEmpty: an except clause that logs and re-raises
CaughtRaised(ctx, exc) == Raised(Log(ctx, "caught", <<exc>>), exc)

\* the except clause of a fetch operation: log the error, return pd.DataFrame()
CaughtEmpty(ctx, exc) == Returned(Log(ctx, "caught", <<exc>>), EmptyFrame)

\* a _save_data call that is the last statement of the try block, followed
\* by `return df`: what the call raises reaches the except clause
SavedOrCaught(s, df) ==
    IF s.exc # "none" THEN CaughtEmpty(s.ctx, s.exc) ELSE Returned(s.ctx, df)

SaveInTry(ctx, df, name) == SavedOrCaught(FinSaveData(ctx, df, name), df)

GetStockListOp(ctx, resp) ==
    LET c1 == Request(ctx, <<"clist">>)
    IN  IF resp.status = "exc" THEN CaughtEmpty(c1, "ConnectionError")
        ELSE IF resp.status = "404" THEN CaughtEmpty(c1, "HTTPError")
        ELSE IF resp.kind = "garbled" THEN CaughtEmpty(c1, "ValueError")
        ELSE IF resp.kind = "nodata" THEN CaughtEmpty(c1, "KeyError")
        ELSE IF resp.kind = "null" \/ resp.items = <<>> THEN
            Returned(Log(c1, "warning", <<"empty">>), EmptyFrame)
        ELSE IF \E i \in 1..Len(resp.items) : StockInfoExc(resp.items[i]) # "none" THEN
            CaughtEmpty(c1, "KeyError")
        ELSE
            SaveInTry(c1, DataFrame([i \in 1..Len(resp.items) |->
                                        StockInfo(resp.items[i], c1.clock)]),
                      <<"stock_list">>)

---------------------------------------------------------------------------
(* EastMoneyCrawler.get_kline_data *)

\* date, open, close, high, low, volume, turnover, amplitude, change percent,
\* change amount, turnover rate: column k is built from fields[k] (0-based)
KlineColumns ==
    <<"date", "open", "close", "high", "low", "volume", "turnover",
      "amplitude", "change_pct", "change_amt", "turnover_rate">>

\* "none", or the exception building kline_data raises: the fields are read
\* left to right, float() is applied to all but the first
KlineRowExc(fields) ==
    LET bad == {i \in 1..Len(KlineColumns) :
                   i > Len(fields) \/ (i > 1 /\ fields[i] \notin NumTokens)}
    IN  IF bad = {} THEN "none"
        ELSE IF Min(bad) > Len(fields) THEN "IndexError" ELSE "ValueError"

KlineRow(fields) ==
    [cols |-> KlineColumns,
     row |-> [c \in Range(KlineColumns) |->
                LET i == CHOOSE j \in 1..Len(KlineColumns) : KlineColumns[j] = c
                IN  IF i = 1 THEN Text(fields[1]) ELSE Num(Float(fields[i]))]]

GetKlineDataOp(ctx, code, resp) ==
    LET c1 == Request(ctx, <<"kline", Market(code), code>>)
    IN  IF resp.status = "exc" THEN CaughtEmpty(c1, "ConnectionError")
        ELSE IF resp.status = "404" THEN CaughtEmpty(c1, "HTTPError")
        ELSE IF resp.kind = "garbled" THEN CaughtEmpty(c1, "ValueError")
        ELSE IF resp.kind = "nodata" THEN CaughtEmpty(c1, "KeyError")
        ELSE IF resp.kind = "null" \/ resp.items = <<>> THEN
            Returned(Log(c1, "warning", <<"empty">>), EmptyFrame)
        ELSE
            LET excs == {i \in 1..Len(resp.items) : KlineRowExc(resp.items[i]) # "none"}
            IN  IF excs # {} THEN CaughtEmpty(c1, KlineRowExc(resp.items[Min(excs)]))
                ELSE IF ~resp.hasname THEN CaughtEmpty(c1, "KeyError")
                ELSE
                    SaveInTry(c1,
                              WithColumn(WithColumn(
                                  DataFrame([i \in 1..Len(resp.items) |->
                                                KlineRow(resp.items[i])]),
                                  "stock_code", Text(code)), "stock_name", Text("name")),
                              <<"kline", code>>)

---------------------------------------------------------------------------
(* EastMoneyCrawler.get_financial_data *)

RecentN == 10      \* klines[-10:]
MinFields == 10    \* len(fields) >= 10

\* s[:n]
FirstN(s, n) == IF Len(s) <= n THEN s ELSE SubSeq(s, 1, n)

\* s[-n:]
LastN(s, n) == IF Len(s) <= n THEN s ELSE SubSeq(s, Len(s) - n + 1, Len(s))

\* date, main / small / medium / large / super-large net inflow, main net
\* inflow ratio, close, change percent: column k is built from fields[k]
FlowColumns ==
    <<"date", "main_net", "small_net", "medium_net", "large_net", "xlarge_net",
      "main_net_pct", "close", "change_pct">>

\* float(tok) if tok != '-' else 0
FlowValue(tok) == IF tok # Sentinel THEN Float(tok) ELSE 0

\* variant of FlowValueExc: a conversion that takes every token float()
\* rejects for the sentinel
FlowValueLenient(tok) == "none"

FlowValueExc(tok) == IF tok # Sentinel /\ tok \notin NumTokens THEN "ValueError" ELSE "none"

\* "none", or the exception building financial_data raises
FlowRowExc(fields) ==
    IF \E i \in 2..Len(FlowColumns) : FlowValueExc(fields[i]) # "none"
    THEN "ValueError" ELSE "none"

FlowRow(fields) ==
    [cols |-> FlowColumns,
     row |-> [c \in Range(FlowColumns) |->
                LET i == CHOOSE j \in 1..Len(FlowColumns) : FlowColumns[j] = c
                IN  IF i = 1 THEN Text(fields[1]) ELSE Num(FlowValue(fields[i]))]]

\* stock code, query time, data status, note (and error message)
Placeholder(code, now, status, note) ==
    [cols |-> <<"stock_code", "query_time", "status", "note">>,
     row |-> [stock_code |-> Text(code), query_time |-> NowText(now),
              status |-> Text(status), note |-> Text(note)]]

ErrorRow(code, now, exc) ==
    [cols |-> <<"stock_code", "query_time", "status", "error", "note">>,
     row |-> [stock_code |-> Text(code), query_time |-> NowText(now),
              status |-> Text("failed"), error |-> Text(exc),
              note |-> Text("check network or code")]]

\* the outer except clause: one row of error data, saved outside any try
FinancialExcept(ctx, code, exc) ==
    SavedOrRaised(FinSaveData(Log(ctx, "caught", <<exc>>),
                              DataFrame(<<ErrorRow(code, ctx.clock, exc)>>),
                              <<"financial", code>>),
                  DataFrame(<<ErrorRow(code, ctx.clock, exc)>>))

\* the _save_data call of the backup path, inside the outer try block
BackupSaved(s, df, code) ==
    IF s.exc # "none" THEN FinancialExcept(s.ctx, code, s.exc) ELSE Returned(s.ctx, df)

BackupSave(ctx, df, code) == BackupSaved(FinSaveData(ctx, df, <<"financial", code>>), df, code)

\* what follows the backup request, issued in ctx
BackupAnswered(ctx, code, resp2) ==
    IF resp2.status = "exc" THEN FinancialExcept(ctx, code, "ConnectionError")
    ELSE BackupSave(ctx,
                    DataFrame(<<IF resp2.status = "200"
                                THEN Placeholder(code, ctx.clock, "queried", "backup interface")
                                ELSE Placeholder(code, ctx.clock, "failed",
                                                 "suspended or delisted")>>),
                    code)

\* the backup request and what follows it
FinancialBackup(ctx, code, resp2) ==
    BackupAnswered(Request(Log(ctx, "info", <<"backup">>), <<"hsgt", code>>), code, resp2)

\* the inner try block ends as [ctx, done, df]; done is FALSE when the block
\* falls through (Fell) or its bare except passes (Passed)
Fell(ctx) == [ctx |-> ctx, done |-> FALSE, df |-> EmptyFrame]
Passed(ctx, exc) == Fell(Log(ctx, "passed", <<exc>>))

\* the _save_data call of the inner try block, followed by `return df`
PrimarySaved(s, df) ==
    IF s.exc # "none" THEN Passed(s.ctx, s.exc)
    ELSE [ctx |-> s.ctx, done |-> TRUE, df |-> df]

PrimarySave(ctx, df, code) == PrimarySaved(FinSaveData(ctx, df, <<"financial", code>>), df)

\* the records of klines[-10:] that have at least MinFields fields
KeptRecords(items) == SelectSeq(LastN(items, RecentN), LAMBDA f : Len(f) >= MinFields)

\* the inner try block, for the records kept
PrimaryRows(ctx, code, kept) ==
    IF \E i \in 1..Len(kept) : FlowRowExc(kept[i]) # "none" THEN Passed(ctx, "ValueError")
    ELSE IF kept = <<>> THEN Fell(ctx)
    ELSE PrimarySave(ctx,
                     WithColumn(DataFrame([i \in 1..Len(kept) |-> FlowRow(kept[i])]),
                                "stock_code", Text(code)),
                     code)

\* the block under `if response.status_code == 200`
FinancialPrimary(ctx, code, resp1) ==
    IF resp1.status # "200" THEN Fell(ctx)
    ELSE IF resp1.kind = "garbled" THEN Passed(ctx, "ValueError")
    ELSE IF resp1.kind # "data" THEN Fell(ctx)
    ELSE PrimaryRows(ctx, code, KeptRecords(resp1.items))

\* after the inner try block: return what it saved, or go on to the backup
AfterPrimary(p, code, resp2) ==
    IF p.done THEN Returned(p.ctx, p.df) ELSE FinancialBackup(p.ctx, code, resp2)

\* what follows the first request, issued in ctx
FlowAnswered(ctx, code, resp1, resp2) ==
    IF resp1.status = "exc" THEN FinancialExcept(ctx, code, "ConnectionError")
    ELSE IF resp1.status = "404" THEN FinancialExcept(ctx, code, "HTTPError")
    ELSE AfterPrimary(FinancialPrimary(ctx, code, resp1), code, resp2)

GetFinancialDataOp(ctx, code, resp1, resp2) ==
    FlowAnswered(Request(ctx, <<"fflow", Market(code), code>>), code, resp1, resp2)

---------------------------------------------------------------------------
(* EastMoneyCrawler.batch_crawl *)

MaxCodes == 2          \* length of stock_codes
MaxBatchAnswers == 2   \* length of the cycle of answers to successive requests
MaxFailAt == 5         \* the failing _save_data is among the first MaxFailAt

\* stock_codes: the first codes of a list in which a code recurs
AllCodes == <<"000001", "600000", "000001", "600000">>
CodeLists == {FirstN(AllCodes, n) : n \in 0..MaxCodes}

CrawlTypes == {"all", "kline", "financial", "other"}

BatchAnswers ==
    {NoBody("exc"), Response("200", "null", <<>>, FALSE),
     Response("200", "data", <<Rec(15, 2, "7")>>, TRUE),
     Response("200", "data", <<Rec(15, 2, Sentinel)>>, TRUE)}

BatchCycles == SeqsUpTo(BatchAnswers, MaxBatchAnswers) \ {<<>>}

\* no write fails, or one write of one of the first MaxFailAt saves does
BatchFails ==
    {[k \in 1..MaxFailAt |-> 0]}
    \cup {[k \in 1..MaxFailAt |-> IF k = n THEN f ELSE 0] : n \in 1..MaxFailAt, f \in 1..3}

\* the state of the loop: [ctx, kline, financial], where kline and financial
\* are the lists all_kline_data and all_financial_data
BatchState(ctx, kline, financial) == [ctx |-> ctx, kline |-> kline, financial |-> financial]

\* variant of BatchKline: the table is put at the head of all_kline_data
BatchKlineAtHead(st, r) ==
    BatchState(Sleep(r.ctx, TicksPerSec),
               IF Empty(r.df) THEN st.kline ELSE <<r.df>> \o st.kline, st.financial)

\* after get_kline_data returned r: append a non-empty table, sleep 1 s
BatchKline(st, r) ==
    BatchState(Sleep(r.ctx, TicksPerSec),
               IF Empty(r.df) THEN st.kline ELSE Append(st.kline, r.df), st.financial)

\* variant of BatchFinancial: the table is appended to all_kline_data
BatchFinancialIntoKline(st, r) ==
    IF r.kind = "raise" THEN BatchState(Log(r.ctx, "caught", <<r.exc>>), st.kline, st.financial)
    ELSE BatchState(Sleep(r.ctx, (3 * TicksPerSec) \div 2),
                    IF Empty(r.df) THEN st.kline ELSE Append(st.kline, r.df), st.financial)

\* after get_financial_data ended as r: what it raises reaches the except
\* clause of the loop body; else append a non-empty table, sleep 1.5 s
BatchFinancial(st, r) ==
    IF r.kind = "raise" THEN BatchState(Log(r.ctx, "caught", <<r.exc>>), st.kline, st.financial)
    ELSE BatchState(Sleep(r.ctx, (3 * TicksPerSec) \div 2), st.kline,
                    IF Empty(r.df) THEN st.financial ELSE Append(st.financial, r.df))

\* variant of BatchOneKline: the K-line data is fetched whatever crawl_type is
BatchOneKlineAlways(st, code, crawl_type, answers) ==
    BatchKline(st, GetKlineDataOp(st.ctx, code, Answer(answers, NumRequests(st.ctx) + 1)))

\* the k-line part of the try block for one code
BatchOneKline(st, code, crawl_type, answers) ==
    IF crawl_type \in {"all", "kline"}
    THEN BatchKline(st, GetKlineDataOp(st.ctx, code, Answer(answers, NumRequests(st.ctx) + 1)))
    ELSE st

\* the financial part of the try block for one code
BatchOneFinancial(st, code, crawl_type, answers) ==
    IF crawl_type \in {"all", "financial"}
    THEN BatchFinancial(st, GetFinancialDataOp(st.ctx, code,
                                               Answer(answers, NumRequests(st.ctx) + 1),
                                               Answer(answers, NumRequests(st.ctx) + 2)))
    ELSE st

\* the try block for one code
BatchOne(st, code, crawl_type, answers) ==
    BatchOneFinancial(BatchOneKline(st, code, crawl_type, answers), code, crawl_type, answers)

\* variant of BatchLoop: without the try block in the loop body, the loop
\* ends at the first code whose fetch met an error
RECURSIVE BatchLoopUntilError(_, _, _, _)
BatchLoopUntilError(st, codes, crawl_type, answers) ==
    IF codes = <<>> \/ \E i \in 1..Len(st.ctx.trace) : st.ctx.trace[i].ev = "caught" THEN st
    ELSE BatchLoopUntilError(BatchOne(BatchState(Log(st.ctx, "code", <<Head(codes)>>),
                                                 st.kline, st.financial),
                                      Head(codes), crawl_type, answers),
                             Tail(codes), crawl_type, answers)

RECURSIVE BatchLoop(_, _, _, _)
BatchLoop(st, codes, crawl_type, answers) ==
    IF codes = <<>> THEN st
    ELSE BatchLoop(BatchOne(BatchState(Log(st.ctx, "code", <<Head(codes)>>),
                                       st.kline, st.financial),
                            Head(codes), crawl_type, answers),
                   Tail(codes), crawl_type, answers)

\* variant of MergeSave: without the `if all_..._data:` guard
MergeSaveAlways(ctx, frames, name) == FinSaveData(ctx, Concat(frames), name)

\* a merged table is saved, outside any try block, when its list is not empty
MergeSave(ctx, frames, name) ==
    IF frames # <<>> THEN FinSaveData(ctx, Concat(frames), name)
    ELSE [ctx |-> ctx, exc |-> "none"]

\* after the merged k-line table was saved (s1)
MergeFinancial(s1, financial) ==
    IF s1.exc # "none" THEN Raised(s1.ctx, s1.exc)
    ELSE SavedOrRaised(MergeSave(s1.ctx, financial, <<"all_financial_data">>), EmptyFrame)

\* merge and save after the loop
BatchMerge(st) ==
    MergeFinancial(MergeSave(st.ctx, st.kline, <<"all_kline_data">>), st.financial)

BatchCrawlOp(ctx, codes, crawl_type, answers) ==
    BatchMerge(BatchLoop(BatchState(ctx, <<>>, <<>>), codes, crawl_type, answers))

---------------------------------------------------------------------------
(* Environment of the medical script *)

MaxAnswers == 3    \* length of the cycle of answers to successive requests
MaxPages == 2      \* largest max_pages argument

\* list items of a page: "ok" yields a row, "nolink" has no <a>, "short" has a
\* title that is filtered out, "exc" raises inside the item's try block
Page(status, items) == [status |-> status, items |-> items]

PageAnswers ==
    {Page("exc", <<>>), Page("404", <<>>), Page("200", <<"short">>),
     Page("200", <<"ok", "nolink">>), Page("200", <<"exc", "ok", "ok">>)}

AnswerCycles == SeqsUpTo(PageAnswers, MaxAnswers) \ {<<>>}

---------------------------------------------------------------------------
(* MedicalDataCrawler.get_nhc_statistics *)

Categories == <<"statistics_info", "health_statistics_2", "health_statistics">>

\* title, publish date, link, category, data source, crawl time
NhcRow(cat, now) ==
    [cols |-> <<"title", "publish_date", "link", "category", "data_source", "crawl_time">>,
     row |-> [title |-> Text("title"), publish_date |-> Text("2024-01-02"),
              link |-> Text("http://www.nhc.gov.cn/x"), category |-> Text(cat),
              data_source |-> Text("NHC"), crawl_time |-> NowText(now)]]

RECURSIVE NhcPagesBreakOnError(_, _, _, _, _, _)
\* variant of NhcPages: a page that fails (an exception, a status other than
\* 200) ends its category, like a page without rows
NhcPagesBreakOnError(ctx, cat, page, max_pages, answers, data) ==
    IF cat > Len(Categories) THEN [ctx |-> ctx, data |-> data]
    ELSE IF page > max_pages
    THEN NhcPagesBreakOnError(ctx, cat + 1, 1, max_pages, answers, data)
    ELSE
        LET ans == Answer(answers, NumRequests(ctx) + 1)
            c1 == Request(ctx, <<"nhc", Categories[cat], page>>)
            ok == SelectSeq(ans.items, LAMBDA it : it = "ok")
            rows == [i \in 1..Len(ok) |-> NhcRow(Categories[cat], c1.clock)]
        IN  IF ans.status # "200" \/ Len(ok) = 0 THEN
                NhcPagesBreakOnError(Log(c1, "warning", <<"lastpage">>), cat + 1, 1,
                                     max_pages, answers, data)
            ELSE
                NhcPagesBreakOnError(RandomSleep(c1, 1, 3), cat, page + 1,
                                     max_pages, answers, data \o rows)

RECURSIVE NhcPages(_, _, _, _, _, _)
\* the loops over categories and pages, from page `page` of category `cat`
\* on; returns [ctx, data]
NhcPages(ctx, cat, page, max_pages, answers, data) ==
    IF cat > Len(Categories) THEN [ctx |-> ctx, data |-> data]
    ELSE IF page > max_pages THEN NhcPages(ctx, cat + 1, 1, max_pages, answers, data)
    ELSE
        LET ans == Answer(answers, NumRequests(ctx) + 1)
            c1 == Request(ctx, <<"nhc", Categories[cat], page>>)
        IN  IF ans.status = "exc" THEN
                NhcPages(Log(c1, "caught", <<"ConnectionError">>), cat, page + 1,
                         max_pages, answers, data)
            ELSE IF ans.status # "200" THEN
                NhcPages(Log(c1, "warning", <<"status">>), cat, page + 1,
                         max_pages, answers, data)
            ELSE
                LET ok == SelectSeq(ans.items, LAMBDA it : it = "ok")
                    rows == [i \in 1..Len(ok) |-> NhcRow(Categories[cat], c1.clock)]
                IN  IF Len(ok) = 0 THEN
                        NhcPages(Log(c1, "warning", <<"lastpage">>), cat + 1, 1,
                                 max_pages, answers, data)
                    ELSE
                        NhcPages(RandomSleep(c1, 1, 3), cat, page + 1,
                                 max_pages, answers, data \o rows)

\* _save_data outside any try block, followed by `return df`
MedSave(ctx, df, name) == SavedOrRaised(MedSaveData(ctx, df, name), df)

\* the end of every medical get_* operation: save a non-empty list of rows
\* (outside any try block) and return it, or return pd.DataFrame()
MedFinish(ctx, data, name) ==
    IF data # <<>> THEN MedSave(ctx, DataFrame(data), name)
    ELSE Returned(ctx, EmptyFrame)

\* r: what the loops ended with, [ctx, data]
MedFinishLoop(r, name) == MedFinish(r.ctx, r.data, name)

GetNhcStatisticsOp(ctx, max_pages, answers) ==
    MedFinishLoop(NhcPages(ctx, 1, 1, max_pages, answers, <<>>), <<"nhc_statistics">>)

---------------------------------------------------------------------------
(* MedicalDataCrawler.get_medical_news *)

NewsSources == <<"cn-healthcare", "medlive", "dxy">>

NewsLimit == 50    \* news_items[:50]

\* title, link, publish time, news source, data source, crawl time
NewsRow(src, now) ==
    [cols |-> <<"title", "link", "publish_time", "news_source", "data_source", "crawl_time">>,
     row |-> [title |-> Text("title"), link |-> Text("http://news/x"),
              publish_time |-> Text(""), news_source |-> Text(src),
              data_source |-> Text("medical_news"), crawl_time |-> NowText(now)]]

RECURSIVE NewsLoop(_, _, _, _)
NewsLoop(ctx, src, answers, data) ==
    IF src > Len(NewsSources) THEN [ctx |-> ctx, data |-> data]
    ELSE
        LET ans == Answer(answers, NumRequests(ctx) + 1)
            c1 == Request(ctx, <<"news", NewsSources[src]>>)
        IN  IF ans.status = "exc" THEN
                NewsLoop(Log(c1, "caught", <<"ConnectionError">>), src + 1, answers, data)
            ELSE IF ans.status # "200" THEN NewsLoop(c1, src + 1, answers, data)
            ELSE
                LET ok == SelectSeq(FirstN(ans.items, NewsLimit), LAMBDA it : it = "ok")
                    rows == [i \in 1..Len(ok) |-> NewsRow(NewsSources[src], c1.clock)]
                IN  NewsLoop(RandomSleep(c1, 2, 4), src + 1, answers, data \o rows)

GetMedicalNewsOp(ctx, answers) ==
    MedFinishLoop(NewsLoop(ctx, 1, answers, <<>>), <<"medical_news">>)

---------------------------------------------------------------------------
(* The generators of the medical script.  A text built from a counter or a    *)
(* list element (an f-string) is the text with the element's index.          *)

TextN(s, n) == [kind |-> "text", num |-> n, text |-> s]

\* random.randint(lo, hi) and random.choice of n elements (an index)
RandInt(ctx, lo, hi) == lo + ctx.rand * (hi - lo)
Choice(ctx, n) == 1 + ctx.rand * (n - 1)

\* pd.DataFrame(rows) of dicts that all have the keys cols
Frame(cols, rows) == [columns |-> cols, rows |-> rows]

\* the end of every generator: `if rows:` save the table and return it
Generated(ctx, cols, rows, name) ==
    IF rows # <<>> THEN MedSave(ctx, Frame(cols, rows), name)
    ELSE Returned(ctx, EmptyFrame)

NumProvinces == 20
NumHospitalLevels == 5
NumHospitalTypes == 10

\* name, level, type, beds, address, phone, province, founded, staff,
\* yearly outpatients, data source, update time
HospitalColumns ==
    <<"hospital_name", "hospital_level", "hospital_type", "beds", "address", "phone",
      "province", "founded", "staff", "outpatients", "data_source", "update_time">>

\* bed_count by hospital_level: 1 and 2 are the third-grade levels, 3 and 4
\* the second-grade ones
BedCount(ctx, level) ==
    IF level = 1 THEN RandInt(ctx, 800, 2000)
    ELSE IF level = 2 THEN RandInt(ctx, 500, 1200)
    ELSE IF level \in {3, 4} THEN RandInt(ctx, 200, 800)
    ELSE RandInt(ctx, 50, 300)

HospitalRow(ctx, province, i) ==
    LET level == Choice(ctx, NumHospitalLevels)
    IN  [hospital_name |-> TextN("hospital", province * 100 + i),
         hospital_level |-> TextN("level", level),
         hospital_type |-> TextN("type", Choice(ctx, NumHospitalTypes)),
         beds |-> Num(BedCount(ctx, level)),
         address |-> TextN("district", province),
         phone |-> TextN("phone", RandInt(ctx, 10, 99)),
         province |-> TextN("province", province),
         founded |-> TextN("date", RandInt(ctx, 1950, 2020)),
         staff |-> Num(RandInt(ctx, 100, 3000)),
         outpatients |-> TextN("10k visits", RandInt(ctx, 10, 200)),
         data_source |-> Text("hospital database"),
         update_time |-> NowText(ctx.clock)]

GetHospitalDataEnhancedOp(ctx) ==
    LET count == RandInt(ctx, 10, 20)
        rows == [k \in 1..(NumProvinces * count) |->
                    HospitalRow(ctx, ((k - 1) \div count) + 1, ((k - 1) % count) + 1)]
    IN  Generated(ctx, HospitalColumns, rows, <<"hospitals_enhanced">>)

NumDiseases == 24
NumMonths == 12
\* variant of DefaultYears: a single year
OneYear == <<2024>>

DefaultYears == <<2020, 2021, 2022, 2023, 2024>>

\* disease, year, month, cases, deaths, cured, fatality rate, cure rate,
\* data source, statistics date, update time
DiseaseColumns ==
    <<"disease", "year", "month", "cases", "deaths", "cured", "fatality_rate",
      "cure_rate", "data_source", "stat_date", "update_time">>

\* Floating-point numbers (IEEE 754 binary64).  A positive double is
\* mant * 2^(-shift) with a mantissa of MantBits bits, held as limbs of
\* LimbBits bits, least significant first, so that no product leaves the
\* range of the integers of the model.
LimbBits == 13
MantBits == 53
Limb == 2 ^ LimbBits

\* the literals 0.05, 0.7 and 0.95 as Python reads them: the doubles nearest
\* to the decimal fractions
Fraction(pct) ==
    IF pct = 5 THEN [mant |-> <<6554, 3276, 1638, 4915, 1>>, shift |-> 57]
    ELSE IF pct = 70 THEN [mant |-> <<1638, 4915, 6553, 3276, 1>>, shift |-> 53]
    ELSE [mant |-> <<1638, 4915, 6553, 7372, 1>>, shift |-> 53]

\* the exact product c * mant, as limbs
Times(c, mant) ==
    LET carry[i \in 0..Len(mant)] ==
            IF i = 0 THEN 0 ELSE (c * mant[i] + carry[i - 1]) \div Limb
    IN  [i \in 1..(Len(mant) + 1) |->
            IF i <= Len(mant) THEN (c * mant[i] + carry[i - 1]) % Limb
            ELSE carry[Len(mant)]]

\* bit j of a number held as limbs
Bit(p, j) == (p[(j \div LimbBits) + 1] \div (2 ^ (j % LimbBits))) % 2

\* the whole part of p * 2^(-shift)
Whole(p, shift) ==
    (p[(shift \div LimbBits) + 1] \div (2 ^ (shift % LimbBits)))
    + p[(shift \div LimbBits) + 2] * (2 ^ (LimbBits - (shift % LimbBits)))

\* int(x) for the double x nearest to p * 2^(-shift): the bits below the
\* MantBits leading ones are dropped, rounding to nearest, ties to even; the
\* whole part grows by one when the rounding carries through the fraction
IntOfRounded(p, shift) ==
    LET high == CHOOSE i \in 1..Len(p) :
                    p[i] # 0 /\ \A k \in (i + 1)..Len(p) : p[k] = 0
        top == (high - 1) * LimbBits
               + (CHOOSE j \in 0..(LimbBits - 1) : 2 ^ j <= p[high] /\ p[high] < 2 ^ (j + 1))
        drop == top + 1 - MantBits
        up == /\ drop >= 1
              /\ Bit(p, drop - 1) = 1
              /\ \/ \E k \in 0..(drop - 2) : Bit(p, k) = 1
                 \/ Bit(p, drop) = 1
    IN  IF up /\ \A k \in drop..(shift - 1) : Bit(p, k) = 1
        THEN Whole(p, shift) + 1 ELSE Whole(p, shift)

\* floor(pct% of n), computed in whole numbers: (n * pct) // 100
PctOfExact(n, pct) == (n * pct) \div 100

\* int(case_count * 0.05), int(case_count * 0.7), int(case_count * 0.95)
PctOf(n, pct) == IntOfRounded(Times(n, Fraction(pct).mant), Fraction(pct).shift)

MinCases == 1000      \* random.randint(1000, 50000)
MaxCases == 50000

\* case_count, death_count and cure_count of one record; dlow and clow tell
\* whether random.randint draws the low end (1) or the high end (0) of its range
DiseaseCounts(case_count, dlow, clow) ==
    [cases |-> case_count,
     deaths |-> IF dlow = 1 THEN 0 ELSE PctOf(case_count, 5),
     cured |-> IF clow = 1 THEN PctOf(case_count, 70) ELSE PctOf(case_count, 95)]

\* round(part / whole * 100, 2), in hundredths of a percent
RatePct(part, whole) == IF whole > 0 THEN (part * 10000) \div whole ELSE 0

\* one record; counts holds what the three random.randint calls drew
DiseaseRecord(ctx, counts, disease, year, month) ==
    [disease |-> TextN("disease", disease), year |-> Num(year), month |-> Num(month),
     cases |-> Num(counts.cases), deaths |-> Num(counts.deaths), cured |-> Num(counts.cured),
     fatality_rate |-> Num(RatePct(counts.deaths, counts.cases)),
     cure_rate |-> Num(RatePct(counts.cured, counts.cases)),
     data_source |-> Text("disease surveillance"),
     stat_date |-> TextN("date", year * 100 + month),
     update_time |-> NowText(ctx.clock)]

\* the loops over years, diseases and months
DiseaseTable(ctx, years, counts) ==
    LET per == NumDiseases * NumMonths
        rows == [k \in 1..(Len(years) * per) |->
                    DiseaseRecord(ctx, counts, (((k - 1) % per) \div NumMonths) + 1,
                                  years[((k - 1) \div per) + 1],
                                  ((k - 1) % NumMonths) + 1)]
    IN  Generated(ctx, DiseaseColumns, rows, <<"disease_statistics_enhanced">>)

GetDiseaseStatisticsEnhancedOp(ctx, years) ==
    DiseaseTable(ctx, years,
                 DiseaseCounts(RandInt(ctx, MinCases, MaxCases), 1 - ctx.rand, 1 - ctx.rand))

NumPolicyTypes == 10

\* title, document number, publish date, type, department, effective date,
\* level, scope, data source, year, update time
PolicyColumns ==
    <<"policy_title", "doc_number", "publish_date", "policy_type", "department",
      "effective_date", "policy_level", "scope", "data_source", "year", "update_time">>

\* a date as <<year, month, day>>
\* f'{year}-{month+1 if month < 12 else 1:02d}-01'
EffectiveDate(year, month) == <<year, IF month < 12 THEN month + 1 ELSE 1, 1>>

DateNum(d) == d[1] * 10000 + d[2] * 100 + d[3]

PolicyRow(ctx, policy_type, year, i) ==
    LET month == RandInt(ctx, 1, 12)
        day == RandInt(ctx, 1, 28)
    IN  [policy_title |-> TextN("title", Choice(ctx, 7) * 100 + policy_type),
         doc_number |-> TextN("number", RandInt(ctx, 1, 200)),
         publish_date |-> TextN("date", DateNum(<<year, month, day>>)),
         policy_type |-> TextN("type", policy_type),
         department |-> TextN("department", Choice(ctx, 4)),
         effective_date |-> TextN("date", DateNum(EffectiveDate(year, month))),
         policy_level |-> TextN("level", Choice(ctx, 3)),
         scope |-> TextN("scope", Choice(ctx, 3)),
         data_source |-> Text("policy library"),
         year |-> Num(year),
         update_time |-> NowText(ctx.clock)]

GetMedicalPoliciesEnhancedOp(ctx, years) ==
    LET count == RandInt(ctx, 5, 10)
        per == NumPolicyTypes * count
        rows == [k \in 1..(Len(years) * per) |->
                    PolicyRow(ctx, (((k - 1) % per) \div count) + 1,
                              years[((k - 1) \div per) + 1], ((k - 1) % count) + 1)]
    IN  Generated(ctx, PolicyColumns, rows, <<"medical_policies_enhanced">>)

NumResearch == 200

\* title, field, type, journal, year, month, impact factor, sample size,
\* institution, first author, corresponding author, funding, keywords,
\* data source, update time
ResearchColumns ==
    <<"research_title", "field", "research_type", "journal", "pub_year", "pub_month",
      "impact_factor", "sample_size", "institution", "first_author",
      "corresponding_author", "funding", "keywords", "data_source", "update_time">>

ResearchRow(ctx, i) ==
    LET field == Choice(ctx, 20)
    IN  [research_title |-> TextN("research", i), field |-> TextN("field", field),
         research_type |-> TextN("type", Choice(ctx, 8)),
         journal |-> TextN("journal", Choice(ctx, 11)),
         pub_year |-> Num(RandInt(ctx, 2020, 2024)), pub_month |-> Num(RandInt(ctx, 1, 12)),
         impact_factor |-> Num(RandInt(ctx, 150, 2500)),
         sample_size |-> Num(RandInt(ctx, 50, 10000)),
         institution |-> TextN("institution", Choice(ctx, 5)),
         first_author |-> TextN("author", i), corresponding_author |-> TextN("author", i),
         funding |-> TextN("funding", Choice(ctx, 4)), keywords |-> TextN("keywords", field),
         data_source |-> Text("research database"),
         update_time |-> NowText(ctx.clock)]

GetMedicalResearchDataOp(ctx) ==
    LET rows == [i \in 1..NumResearch |-> ResearchRow(ctx, i)]
    IN  Generated(ctx, ResearchColumns, rows, <<"medical_research">>)

---------------------------------------------------------------------------
(* MedicalDataCrawler.run_all *)

NhcPagesRunAll == 5     \* get_nhc_statistics(max_pages=5)
Target == 1000          \* total_records >= 1000

\* stage k of run_all, run in ctx
Stage(ctx, k, answers) ==
    IF k = 1 THEN GetNhcStatisticsOp(ctx, NhcPagesRunAll, answers)
    ELSE IF k = 2 THEN GetMedicalNewsOp(ctx, answers)
    ELSE IF k = 3 THEN GetHospitalDataEnhancedOp(ctx)
    ELSE IF k = 4 THEN GetDiseaseStatisticsEnhancedOp(ctx, DefaultYears)
    ELSE IF k = 5 THEN GetMedicalPoliciesEnhancedOp(ctx, DefaultYears)
    ELSE GetMedicalResearchDataOp(ctx)

\* after stage k ended as r (st: [ctx, frames, exc]): a stage that raises
\* ends run_all, an empty table is not appended
StageDone(st, r) ==
    IF r.kind = "raise" THEN [ctx |-> r.ctx, frames |-> st.frames, exc |-> r.exc]
    ELSE [ctx |-> r.ctx, exc |-> "none",
          frames |-> IF Empty(r.df) THEN st.frames ELSE Append(st.frames, r.df)]

\* variant of RunStage: run_all gives up at the first stage that fetched no
\* rows
RunStageUnlessEmpty(st, k, answers) ==
    IF st.exc # "none" \/ Len(st.frames) < k - 1 THEN st
    ELSE StageDone(st, Stage(Log(st.ctx, "stage", <<>>), k, answers))

\* stage k after the stages before it
RunStage(st, k, answers) ==
    IF st.exc # "none" THEN st
    ELSE StageDone(st, Stage(Log(st.ctx, "stage", <<>>), k, answers))

RunStages(ctx, answers) ==
    RunStage(RunStage(RunStage(RunStage(RunStage(RunStage(
        [ctx |-> ctx, frames |-> <<>>, exc |-> "none"],
        1, answers), 2, answers), 3, answers), 4, answers), 5, answers), 6, answers)

RECURSIVE TotalRecords(_)
TotalRecords(frames) ==
    IF frames = <<>> THEN 0 ELSE Len(Head(frames).rows) + TotalRecords(Tail(frames))

\* df['data_source'] = source k, for a frame without that column
Tagged(frames) ==
    [i \in 1..Len(frames) |->
        IF "data_source" \notin Range(frames[i].columns)
        THEN WithColumn(frames[i], "data_source", TextN("source", i))
        ELSE frames[i]]

\* the merged table is saved, outside any try block, when there is a table
Combine(ctx, frames) ==
    IF frames # <<>>
    THEN SavedOrRaised(MedSaveData(ctx, Concat(Tagged(frames)),
                                   <<"all_medical_data_combined">>),
                       EmptyFrame)
    ELSE Returned(ctx, EmptyFrame)

\* after the stages: the total is compared with the target and logged
Summarise(st) ==
    IF st.exc # "none" THEN Raised(st.ctx, st.exc)
    ELSE Combine(Log(st.ctx,
                     IF TotalRecords(st.frames) >= Target THEN "info" ELSE "warning",
                     <<"target">>),
                 st.frames)

RunAllOp(ctx, answers) == Summarise(RunStages(ctx, answers))

---------------------------------------------------------------------------
(* Specifications *)

Init ==
    /\ clock = 0
    /\ disk = {}
    /\ pc = "ready"
    /\ call = [op |-> "none"]
    /\ result = [kind |-> "none", exc |-> "none", df |-> EmptyFrame]
    /\ trace = <<>>
    /\ saves = <<>>

\* the operation ends: its effects and its outcome become the state
Finish(r, c) ==
    /\ pc' = "done"
    /\ call' = c
    /\ clock' = r.ctx.clock
    /\ disk' = r.ctx.disk
    /\ trace' = r.ctx.trace
    /\ saves' = r.ctx.saves
    /\ result' = [kind |-> r.kind, exc |-> r.exc, df |-> r.df]

\* an I/O step is immediate or takes MaxDur ticks
Durations == {0, MaxDur}

GetStockList ==
    /\ pc = "ready"
    /\ \E resp \in StockResponses, fails \in OneFail, dur \in Durations :
        Finish(GetStockListOp(NewCtx(clock, disk, fails, dur, 0), resp),
               [op |-> "get_stock_list", resp |-> resp])

GetKlineData ==
    /\ pc = "ready"
    /\ \E code \in Codes, resp \in KlineResponses, fails \in OneFail, dur \in Durations :
        Finish(GetKlineDataOp(NewCtx(clock, disk, fails, dur, 0), code, resp),
               [op |-> "get_kline_data", code |-> code, resp |-> resp])

GetFinancialData ==
    /\ pc = "ready"
    /\ \E code \in Codes, resp1 \in FlowResponses, resp2 \in BackupResponses,
       fails \in FailSchedules, dur \in Durations :
        Finish(GetFinancialDataOp(NewCtx(clock, disk, fails, dur, 0), code, resp1, resp2),
               [op |-> "get_financial_data", code |-> code, resp |-> resp1, resp2 |-> resp2])

GetNhcStatistics ==
    /\ pc = "ready"
    /\ \E max_pages \in 0..MaxPages, answers \in AnswerCycles, fails \in OneFail,
       dur \in Durations, rand \in {0, 1} :
        Finish(GetNhcStatisticsOp(NewCtx(clock, disk, fails, dur, rand), max_pages, answers),
               [op |-> "get_nhc_statistics", max_pages |-> max_pages, answers |-> answers])

GetMedicalNews ==
    /\ pc = "ready"
    /\ \E answers \in AnswerCycles, fails \in OneFail, dur \in Durations, rand \in {0, 1} :
        Finish(GetMedicalNewsOp(NewCtx(clock, disk, fails, dur, rand), answers),
               [op |-> "get_medical_news", answers |-> answers])

BatchCrawl ==
    /\ pc = "ready"
    /\ \E codes \in CodeLists, crawl_type \in CrawlTypes,
          answers \in BatchCycles, fails \in BatchFails, dur \in Durations :
        Finish(BatchCrawlOp(NewCtx(clock, disk, fails, dur, 0), codes, crawl_type, answers),
               [op |-> "batch_crawl", codes |-> codes, crawl_type |-> crawl_type,
                answers |-> answers])

MaxYears == 1         \* length of a years argument
MaxRunAnswers == 1    \* run_all: length of the cycle of answers

\* the years argument: a list, or None for the default
YearLists == SeqsUpTo({2023, 2024}, MaxYears) \cup {DefaultYears}

\* run_all: what the portal and the news sites answer
RunAnswers == {Page("exc", <<>>), Page("200", <<"short">>), Page("200", <<"ok", "nolink">>)}
RunCycles == SeqsUpTo(RunAnswers, MaxRunAnswers) \ {<<>>}

\* run_all: no write fails, or one write of one of its seven saves does
RunFails ==
    {[k \in 1..7 |-> 0]}
    \cup {[k \in 1..7 |-> IF k = n THEN f ELSE 0] :
             n \in 1..7, f \in 1..Len(MedFormats)}

GetHospitalDataEnhanced ==
    /\ pc = "ready"
    /\ \E fails \in OneFail, dur \in Durations, rand \in {0, 1} :
        Finish(GetHospitalDataEnhancedOp(NewCtx(clock, disk, fails, dur, rand)),
               [op |-> "get_hospital_data_enhanced"])

GetDiseaseStatisticsEnhanced ==
    /\ pc = "ready"
    /\ \E years \in YearLists, fails \in OneFail, dur \in Durations, rand \in {0, 1} :
        Finish(GetDiseaseStatisticsEnhancedOp(NewCtx(clock, disk, fails, dur, rand), years),
               [op |-> "get_disease_statistics_enhanced", years |-> years])

GetMedicalPoliciesEnhanced ==
    /\ pc = "ready"
    /\ \E years \in YearLists, fails \in OneFail, dur \in Durations, rand \in {0, 1} :
        Finish(GetMedicalPoliciesEnhancedOp(NewCtx(clock, disk, fails, dur, rand), years),
               [op |-> "get_medical_policies_enhanced", years |-> years])

GetMedicalResearchData ==
    /\ pc = "ready"
    /\ \E fails \in OneFail, dur \in Durations, rand \in {0, 1} :
        Finish(GetMedicalResearchDataOp(NewCtx(clock, disk, fails, dur, rand)),
               [op |-> "get_medical_research_data"])

RunAll ==
    /\ pc = "ready"
    /\ \E answers \in RunCycles, fails \in RunFails, rand \in {0, 1} :
        Finish(RunAllOp(NewCtx(clock, disk, fails, MaxDur, rand), answers),
               [op |-> "run_all", answers |-> answers])

Next ==
    \/ GetStockList
    \/ GetKlineData
    \/ GetFinancialData
    \/ BatchCrawl
    \/ GetNhcStatistics
    \/ GetMedicalNews
    \/ GetHospitalDataEnhanced
    \/ GetDiseaseStatisticsEnhanced
    \/ GetMedicalPoliciesEnhanced
    \/ GetMedicalResearchData
    \/ RunAll

Spec == Init /\ [][Next]_vars

---------------------------------------------------------------------------
(* SpecSave: _save_data called directly, several times, while the wall     *)
(* clock that datetime.now() reads advances                                *)

SaveNames == {<<"stock_list">>, <<"kline", "000001">>}

\* the table saved: one row
OneRow == Frame(<<"stock_code">>, <<[stock_code |-> Text("000001")]>>)

\* which write of a call fails: none, or the second
SaveFailAts == {0, 2}

\* the context of the next direct call: it goes on from the state; the time
\* the writes take is left to Tick
SaveCtx(failAt) ==
    [NewCtx(clock, disk,
            [k \in 1..MaxSaveCalls |-> IF k = Len(saves) + 1 THEN failAt ELSE 0], 0, 0)
        EXCEPT !.saves = saves]

\* the call ended as s
SaveReturns(s, name) ==
    /\ s.ctx.clock <= MaxClock
    /\ clock' = s.ctx.clock
    /\ disk' = s.ctx.disk
    /\ saves' = s.ctx.saves
    /\ trace' = s.ctx.trace
    /\ call' = [op |-> "_save_data", name |-> name]
    /\ result' = [kind |-> IF s.exc = "none" THEN "return" ELSE "raise", exc |-> s.exc,
                  df |-> EmptyFrame]
    /\ pc' = pc

CallFinSaveData ==
    /\ Len(saves) < MaxSaveCalls
    /\ \E name \in SaveNames, failAt \in SaveFailAts :
        SaveReturns(FinSaveData(SaveCtx(failAt), OneRow, name), name)

CallMedSaveData ==
    /\ Len(saves) < MaxSaveCalls
    /\ \E name \in SaveNames, failAt \in SaveFailAts :
        SaveReturns(MedSaveData(SaveCtx(failAt), OneRow, name), name)

\* time passes
Tick ==
    /\ clock < MaxClock
    /\ clock' = clock + 1
    /\ UNCHANGED <<disk, pc, call, result, trace, saves>>

NextSave ==
    \/ CallFinSaveData
    \/ CallMedSaveData
    \/ Tick

SpecSave == Init /\ [][NextSave]_vars

---------------------------------------------------------------------------
(* SpecSheet: _save_data called once on a table whose header texts and     *)
(* cell texts have given lengths; the column widths of the sheet written   *)

WidthPad == 2          \* max(...) + 2
WidthColumns == 26     \* if idx < 26
WidthCap == 50         \* min(max_length, 50)

MaxCols == 27          \* columns of the widest table
MaxTextLen == 51       \* characters of the longest header or cell text

Max(S) == CHOOSE x \in S : \A y \in S : x >= y

\* a header text: the column's position and the number of its characters
Header(i, len) == <<i, len>>

\* len(col)
HeaderLen(col) == col[2]

\* a cell whose str() has n characters
Str(n) == [kind |-> "str", num |-> n, text |-> ""]

\* len(str(v)) of a cell
StrLen(v) == v.num

\* variant of MaxLength: the header text is left out of the maximum
MaxLengthOfCells(df, col) ==
    Max({StrLen(Cell(df, r, col)) : r \in 1..Len(df.rows)}) + WidthPad

\* max(df[col].astype(str).apply(len).max(), len(col)) + 2
MaxLength(df, col) ==
    Max({StrLen(Cell(df, r, col)) : r \in 1..Len(df.rows)} \cup {HeaderLen(col)}) + WidthPad

\* the widths the medical _save_data sets: column_dimensions[chr(65 + idx)]
\* for the columns idx < 26 (0-based), the others are not assigned
MedColumnWidths(df) ==
    [idx \in {i \in 0..(Len(df.columns) - 1) : i < WidthColumns} |->
        Min({MaxLength(df, df.columns[idx + 1]), WidthCap})]

\* the financial _save_data calls df.to_excel and assigns no width
FinColumnWidths(df) == [idx \in {} |-> 0]

\* a table of ncols columns and nrows rows: header k has hlen characters and
\* the cell of column k in row 1 has clen; the other texts have 4 and 3
SheetTable(ncols, nrows, k, hlen, clen) ==
    LET cols == [i \in 1..ncols |-> Header(i, IF i = k THEN hlen ELSE 4)]
    IN  Frame(cols,
              [r \in 1..nrows |->
                  [c \in Range(cols) |-> Str(IF c[1] = k /\ r = 1 THEN clen ELSE 3)]])

ColumnCounts == {1, 2, WidthColumns, MaxCols}
TextLens == {1, WidthCap - WidthPad - 1, WidthCap - WidthPad, WidthCap - 1, WidthCap,
             MaxTextLen}

SheetTables ==
    {SheetTable(ncols, nrows, k, hlen, clen) :
        ncols \in ColumnCounts, nrows \in 1..2, k \in {1, 2, WidthColumns, MaxCols},
        hlen \in TextLens, clen \in TextLens \cup {0}}

\* the call ended as s; the widths are set after to_excel has written the sheet
SheetSaved(s, script, df, widths) ==
    /\ pc' = "saved"
    /\ call' = [op |-> "_save_data", script |-> script, df |-> df]
    /\ clock' = s.ctx.clock
    /\ disk' = s.ctx.disk
    /\ trace' = s.ctx.trace
    /\ saves' = s.ctx.saves
    /\ result' = [kind |-> IF s.exc = "none" THEN "return" ELSE "raise", exc |-> s.exc,
                  df |-> EmptyFrame,
                  widths |-> IF "xlsx" \in Range(s.ctx.saves[1].written)
                             THEN widths ELSE FinColumnWidths(df)]

SaveSheetMed ==
    /\ pc = "ready"
    /\ \E df \in SheetTables, failAt \in SaveFailAts :
        SheetSaved(MedSaveData(NewCtx(clock, disk, <<failAt>>, 0, 0), df, <<"sheet">>),
                   "medical", df, MedColumnWidths(df))

SaveSheetFin ==
    /\ pc = "ready"
    /\ \E df \in SheetTables, failAt \in SaveFailAts :
        SheetSaved(FinSaveData(NewCtx(clock, disk, <<failAt>>, 0, 0), df, <<"sheet">>),
                   "financial", df, FinColumnWidths(df))

NextSheet ==
    \/ SaveSheetMed
    \/ SaveSheetFin

SpecSheet == Init /\ [][NextSheet]_vars

---------------------------------------------------------------------------
(* SpecFiles: _save_data called once on a table of typed cells; what the   *)
(* CSV file and the JSON file hold and what reading them back gives        *)

JsonPrecision == 10    \* to_json without double_precision: 10 decimal places
MaxPlaces == 11        \* decimal places of the longest float

\* a float with the given number of decimal places
Dec(places) == [kind |-> "dec", num |-> 1, places |-> places]

\* a text is its characters, or the digits of a number and its decimal places
Chars(s) == [chars |-> s, num |-> 0, places |-> 0]
Digits(n, places) == [chars |-> "", num |-> n, places |-> places]

\* str(v) as to_csv prints a cell: NaN and None as the empty text (na_rep=''),
\* a float with all its decimal places (repr)
AsText(v) ==
    IF v.kind = "null" THEN Chars("")
    ELSE IF v.kind = "text" THEN Chars(v.text)
    ELSE IF v.kind = "dec" THEN Digits(v.num, v.places)
    ELSE Digits(v.num, 0)

\* df.to_csv(index=False): the header line and one line per row, a field per
\* column; a field with a delimiter is quoted
ToCsv(df) ==
    [header |-> df.columns,
     lines |-> [r \in 1..Len(df.rows) |->
                  [k \in 1..Len(df.columns) |->
                      [quoted |-> AsText(Cell(df, r, df.columns[k])) = Chars("a,b"),
                       text |-> AsText(Cell(df, r, df.columns[k]))]]]]

\* df.to_json(orient='records', force_ascii=False): NaN is null, a float is
\* rounded to JsonPrecision decimal places, a text is written unescaped
JsonValue(v) ==
    IF v.kind = "null" THEN [type |-> "null", text |-> Chars(""), escaped |-> FALSE]
    ELSE IF v.kind = "text" THEN [type |-> "string", text |-> Chars(v.text), escaped |-> FALSE]
    ELSE IF v.kind = "dec"
    THEN [type |-> "number", text |-> Digits(v.num, Min({v.places, JsonPrecision})),
          escaped |-> FALSE]
    ELSE [type |-> "number", text |-> Digits(v.num, 0), escaped |-> FALSE]

\* one object per row, with a key per column of the table
ToJson(df) ==
    [r \in 1..Len(df.rows) |-> [c \in Range(df.columns) |-> JsonValue(Cell(df, r, c))]]

\* the cells a table may hold: NaN, an integer, floats, texts (empty, with the
\* delimiter, not ASCII)
CellValues ==
    {Null, Num(7), Dec(2), Dec(JsonPrecision), Dec(MaxPlaces),
     Text("abc"), Text(""), Text("a,b"), Text("non-ascii")}

CellTables ==
    {Frame(<<"code", "price">>,
           [r \in 1..nrows |-> [code |-> IF r = 1 THEN v1 ELSE Text("abc"), price |-> v2]]) :
        nrows \in 1..2, v1 \in CellValues, v2 \in CellValues}

\* the call ended as s: the files it wrote hold the table
TableSaved(s, script, df) ==
    /\ pc' = "written"
    /\ call' = [op |-> "_save_data", script |-> script, df |-> df]
    /\ clock' = s.ctx.clock
    /\ disk' = s.ctx.disk
    /\ trace' = s.ctx.trace
    /\ saves' = s.ctx.saves
    /\ result' = [kind |-> IF s.exc = "none" THEN "return" ELSE "raise", exc |-> s.exc,
                  df |-> EmptyFrame,
                  files |-> [fmt \in Range(s.ctx.saves[1].written) \ {"xlsx"} |->
                                IF fmt = "csv" THEN ToCsv(df) ELSE ToJson(df)]]

SaveTableFin ==
    /\ pc = "ready"
    /\ \E df \in CellTables, failAt \in SaveFailAts :
        TableSaved(FinSaveData(NewCtx(clock, disk, <<failAt>>, 0, 0), df, <<"table">>),
                   "financial", df)

SaveTableMed ==
    /\ pc = "ready"
    /\ \E df \in CellTables, failAt \in SaveFailAts :
        TableSaved(MedSaveData(NewCtx(clock, disk, <<failAt>>, 0, 0), df, <<"table">>),
                   "medical", df)

NextFiles ==
    \/ SaveTableFin
    \/ SaveTableMed

SpecFiles == Init /\ [][NextFiles]_vars

---------------------------------------------------------------------------
(* SpecDisease: one pass of the loop body of get_disease_statistics_enhanced *)
(* for any case count random.randint can draw, next to the whole operation   *)

\* year, disease and month of the first pass of the loops
FirstYear == DefaultYears[1]

\* one record is built: case_count is drawn, death_count and cure_count are
\* drawn at the low or the high end of their ranges
GenerateDiseaseRecord ==
    /\ pc = "ready"
    /\ \E case_count \in MinCases..MaxCases, dlow \in {0, 1}, clow \in {0, 1} :
        /\ pc' = "generated"
        /\ call' = [op |-> "disease_record", case_count |-> case_count,
                    dlow |-> dlow, clow |-> clow]
        /\ result' = [kind |-> "record", exc |-> "none",
                      df |-> Frame(DiseaseColumns,
                                   <<DiseaseRecord(NewCtx(clock, disk, <<0>>, 0, 0),
                                                   DiseaseCounts(case_count, dlow, clow),
                                                   1, FirstYear, 1)>>)]
        /\ UNCHANGED <<clock, disk, trace, saves>>

NextDisease ==
    \/ GenerateDiseaseRecord
    \/ GetDiseaseStatisticsEnhanced

SpecDisease == Init /\ [][NextDisease]_vars

---------------------------------------------------------------------------
(* Properties *)

Done == pc = "done"

FetchOps ==
    {"get_stock_list", "get_kline_data", "get_financial_data", "get_nhc_statistics",
     "get_medical_news", "get_hospital_data_enhanced", "get_disease_statistics_enhanced",
     "get_medical_policies_enhanced", "get_medical_research_data"}

Fetched == Done /\ call.op \in FetchOps

\* the positions of the events ev in the trace
Events(ev) == {i \in 1..Len(trace) : trace[i].ev = ev}

OnDisk(path) == \E f \in disk : f.path = path

\* the file of that path was last written by the by-th _save_data
WrittenBy(path, by) == \E f \in disk : f.path = path /\ f.by = by

NoWriteFailed == \A i \in 1..Len(saves) : saves[i].exc = "none"

IsPrefix(s, t) == Len(s) <= Len(t) /\ \A k \in 1..Len(s) : s[k] = t[k]

Abs(n) == IF n < 0 THEN 0 - n ELSE n

\* the order of the formats as the specification gives it
ClaimedOrder == <<"csv", "xlsx", "json">>

\* C1: every successful persistence call with dataset name N leaves exactly
\* the three files N_<ts>.csv, N_<ts>.xlsx and N_<ts>.json, with one timestamp.
C1_ArtifactTriple ==
    \A i \in 1..Len(saves) :
        saves[i].exc = "none" =>
            saves[i].paths = {FileName(saves[i].name, saves[i].ts, ext) :
                                 ext \in Range(ClaimedOrder)}

\* C2: within one persistence call the formats are written in the order CSV,
\* XLSX, JSON; when a write fails the files written before it in the call stay
\* on disk, no later format is written by the call, and the call raises.
C2_OrderedNoRollback ==
    \A i \in 1..Len(saves) :
        LET s == saves[i]
        IN  /\ IsPrefix(s.written, ClaimedOrder)
            /\ s.paths = {FileName(s.name, s.ts, s.written[k]) : k \in 1..Len(s.written)}
            /\ \A p \in s.paths : OnDisk(p)
            /\ (s.exc = "none") <=> (s.written = s.formats)
            /\ s.exc # "none" =>
                /\ s.exc = "WriteError"
                /\ Len(s.written) < Len(s.formats)
                /\ \A k \in (Len(s.written) + 1)..Len(s.formats) :
                      ~WrittenBy(FileName(s.name, s.ts, s.formats[k]), i)

\* a call of the financial script wrote the CSV file, failed at the XLSX file,
\* and the CSV file is on disk
C2_Witness ==
    \E i \in 1..Len(saves) :
        /\ saves[i].formats = FinFormats
        /\ saves[i].written = <<"csv">>
        /\ saves[i].exc = "WriteError"
        /\ WrittenBy(FileName(saves[i].name, saves[i].ts, "csv"), i)

\* C3: a write failure of _save_data inside a fetch operation leaves the
\* operation as an exception, and no request is issued after it.
C3_WriteFailurePropagates ==
    (Fetched /\ ~NoWriteFailed) =>
        /\ result.kind = "raise"
        /\ result.exc = "WriteError"
        /\ \A w \in Events("writefail"), q \in Events("request") : q < w

\* C4: one call of a fetch operation invokes _save_data at most once.
C4_AtMostOneSave == Fetched => Len(saves) <= 1

\* a record that float() rejects at one of the fields 2..n it is asked to
\* convert, or that is too short to have them
Unparsable(fields, n) ==
    Len(fields) < n \/ \E k \in 2..n : fields[k] \notin NumTokens

\* a fund-flow record that is kept and holds a token that is neither a number
\* nor the sentinel
FlowUnparsable(fields) ==
    /\ Len(fields) >= MinFields
    /\ \E k \in 2..Len(FlowColumns) : fields[k] \notin (NumTokens \cup {Sentinel})

\* the request of get_stock_list or get_kline_data met a transport failure
\* (status) or a parse failure (body, entries)
FetchFailure(c) ==
    \/ c.resp.status # "200"
    \/ c.resp.kind \in {"garbled", "nodata"}
    \/ /\ c.op = "get_stock_list"
       /\ \E i \in 1..Len(c.resp.items) : DOMAIN c.resp.items[i] # StockKeys
    \/ /\ c.op = "get_kline_data"
       /\ c.resp.items # <<>>
       /\ \/ ~c.resp.hasname
          \/ \E i \in 1..Len(c.resp.items) : Unparsable(c.resp.items[i], Len(KlineColumns))

\* the first request of get_financial_data met a transport or a parse failure
FlowFailure(resp) ==
    \/ resp.status # "200"
    \/ resp.kind = "garbled"
    \/ \E i \in 1..Len(resp.items) : FlowUnparsable(resp.items[i])

\* one row that carries the stock code, the query time, a status and a note
IsPlaceholder(df, code) ==
    /\ Len(df.rows) = 1
    /\ {"stock_code", "query_time", "status", "note"} \subseteq DOMAIN df.rows[1]
    /\ {"stock_code", "query_time", "status", "note"} \subseteq Range(df.columns)
    /\ df.rows[1].stock_code = Text(code)
    /\ df.rows[1].query_time.kind = "time"
    /\ df.rows[1].status \in {Text("failed"), Text("queried")}

\* C5: a transport or parse failure never leaves a fetch operation:
\* get_stock_list and get_kline_data return an empty table and write nothing;
\* get_financial_data raises nothing but the write error of its last save,
\* never returns an empty table, and after a failure returns the one
\* placeholder row it has persisted.
C5_FailuresStayInside ==
    /\ (Done /\ call.op \in {"get_stock_list", "get_kline_data"} /\ FetchFailure(call)) =>
        /\ result.kind = "return"
        /\ Empty(result.df)
        /\ saves = <<>>
        /\ disk = {}
    /\ (Done /\ call.op = "get_financial_data") =>
        /\ result.kind = "raise" =>
            /\ result.exc = "WriteError"
            /\ saves[Len(saves)].exc = "WriteError"
        /\ result.kind = "return" =>
            /\ ~Empty(result.df)
            /\ saves[Len(saves)].df = result.df
            /\ saves[Len(saves)].exc = "none"
            /\ \A p \in saves[Len(saves)].paths : WrittenBy(p, Len(saves))
            /\ FlowFailure(call.resp) => IsPlaceholder(result.df, call.code)

\* get_financial_data met a connection error at both requests and returned
\* the row it persisted
C5_Witness ==
    /\ Done
    /\ call.op = "get_financial_data"
    /\ call.resp.status = "exc"
    /\ call.resp2.status = "exc"
    /\ result.kind = "return"
    /\ IsPlaceholder(result.df, call.code)
    /\ Len(saves) = 1

\* C6: _save_data is never invoked with a table of zero rows, no file holds
\* zero rows, and a fetch operation that returns an empty table without a
\* write having failed has written nothing.
C6_NoEmptyTableSaved ==
    /\ \A i \in 1..Len(saves) : Len(saves[i].df.rows) >= 1
    /\ \A f \in disk : f.rows >= 1
    /\ (Fetched /\ result.kind = "return" /\ Empty(result.df) /\ NoWriteFailed) =>
        (saves = <<>> /\ disk = {})

\* batch_crawl of type 'all' over some codes got no K-line rows and some
\* financial rows: the merged financial table is saved, no merged K-line table
C6_Witness ==
    /\ Done
    /\ call.op = "batch_crawl"
    /\ call.crawl_type = "all"
    /\ call.codes # <<>>
    /\ result.kind = "return"
    /\ \E i \in 1..Len(saves) : saves[i].name = <<"all_financial_data">>
    /\ \A i \in 1..Len(saves) : saves[i].name # <<"all_kline_data">>

\* the columns the fields 2.. of a record are converted into
NumericColumns(op) == IF op = "get_kline_data" THEN KlineColumns ELSE FlowColumns

\* every record has the fields and each numeric field holds a number or the
\* sentinel
SentinelOrNumber(items, n) ==
    \A i \in 1..Len(items) :
        Len(items[i]) >= n /\ \A k \in 2..n : items[i][k] \in (NumTokens \cup {Sentinel})

\* C7: in get_kline_data and get_financial_data a numeric field whose raw
\* token is the sentinel "-" becomes exactly 0 in the row of its record.
C7_SentinelIsZero ==
    (/\ Done
     /\ call.op \in {"get_kline_data", "get_financial_data"}
     /\ call.resp.status = "200"
     /\ call.resp.kind = "data"
     /\ call.resp.items # <<>>
     /\ call.op = "get_kline_data" => call.resp.hasname
     /\ SentinelOrNumber(call.resp.items, Len(KlineColumns))
     /\ NoWriteFailed) =>
        /\ result.kind = "return"
        /\ Len(result.df.rows) = Len(call.resp.items)
        /\ \A i \in 1..Len(call.resp.items), k \in 2..Len(NumericColumns(call.op)) :
              call.resp.items[i][k] = Sentinel =>
                  Cell(result.df, i, NumericColumns(call.op)[k]) = Num(0)

\* the payload holds a record with a malformed token (neither a number nor
\* the sentinel) in a field the operation converts
HasMalformed(c) ==
    /\ c.resp.status = "200"
    /\ c.resp.kind = "data"
    /\ \E i \in 1..Len(c.resp.items) :
          /\ Len(c.resp.items[i]) >= MinFields
          /\ \E k \in 2..Len(FlowColumns) :
                c.resp.items[i][k] \notin (NumTokens \cup {Sentinel})

\* C8 as stated: a malformed token makes the fetch operation raise the parse
\* error to its caller.
C8_MalformedPropagates ==
    (Done /\ call.op \in {"get_kline_data", "get_financial_data"} /\ HasMalformed(call)) =>
        (result.kind = "raise" /\ result.exc = "ValueError")

\* C8, amended: a malformed token is given no default and no row of the
\* payload is returned or persisted, but the parse error does not reach the
\* caller: get_kline_data returns an empty table and writes nothing;
\* get_financial_data goes on to the backup request and returns a placeholder
\* row.
C8_MalformedCaught ==
    (Done /\ call.op \in {"get_kline_data", "get_financial_data"} /\ HasMalformed(call)) =>
        /\ result.exc # "ValueError"
        /\ call.op = "get_kline_data" =>
            /\ result.kind = "return"
            /\ Empty(result.df)
            /\ saves = <<>>
            /\ disk = {}
        /\ call.op = "get_financial_data" =>
            /\ "main_net" \notin Range(result.df.columns)
            /\ \A i \in 1..Len(saves) : "main_net" \notin Range(saves[i].df.columns)
            /\ \E q \in Events("request") : trace[q].what[1] = "hsgt"
            /\ result.kind = "return" => IsPlaceholder(result.df, call.code)

\* get_financial_data got a record with a malformed token and returned a
\* placeholder row
C8_Witness ==
    /\ Done
    /\ call.op = "get_financial_data"
    /\ HasMalformed(call)
    /\ result.kind = "return"
    /\ IsPlaceholder(result.df, call.code)

\* C9: two persistence calls with the same dataset name whose clock readings
\* are more than one second apart write disjoint sets of files, and no file
\* of a call is overwritten by a call whose reading is more than a second
\* away; a file name that two calls share holds what the later call wrote.
C9_NoCollisionBeyondOneSecond ==
    \A i \in 1..Len(saves), j \in 1..Len(saves) :
        /\ (/\ saves[i].name = saves[j].name
            /\ Abs(saves[j].at - saves[i].at) > TicksPerSec) =>
               /\ saves[i].paths \cap saves[j].paths = {}
               /\ \A p \in saves[i].paths : ~WrittenBy(p, j)
        /\ i < j => \A p \in saves[i].paths \cap saves[j].paths : ~WrittenBy(p, i)

\* two calls with one name within one second wrote the same file names and
\* the second overwrote the files of the first; a third call with that name,
\* more than a second later, left them alone
C9_Witness ==
    /\ Len(saves) = 3
    /\ NoWriteFailed
    /\ saves[1].name = saves[2].name
    /\ saves[1].at # saves[2].at
    /\ saves[1].paths = saves[2].paths
    /\ \A p \in saves[1].paths : WrittenBy(p, 2)
    /\ saves[3].name = saves[1].name
    /\ saves[3].at - saves[2].at > TicksPerSec
    /\ \A p \in saves[3].paths : WrittenBy(p, 3)

\* all rows of the table have the columns of the table
Homogeneous(df) == \A i \in 1..Len(df.rows) : DOMAIN df.rows[i] = Range(df.columns)

\* C10 as stated: every table handed to _save_data, the merged ones included,
\* is built from rows that all have the same columns.
C10_EveryTableHomogeneous == \A i \in 1..Len(saves) : Homogeneous(saves[i].df)

\* the merged tables whose parts have different columns
MixedNames == {<<"all_financial_data">>, <<"all_medical_data_combined">>}

\* C10, amended: the table a get_* operation saves and the merged K-line
\* table are built from rows that all have the same columns; the rows of the
\* merged financial and medical tables have some of the columns of the table,
\* which are the union of the columns of the parts.
C10_SingleSourceHomogeneous ==
    \A i \in 1..Len(saves) :
        /\ saves[i].name \notin MixedNames => Homogeneous(saves[i].df)
        /\ \A r \in 1..Len(saves[i].df.rows) :
              DOMAIN saves[i].df.rows[r] \subseteq Range(saves[i].df.columns)
        /\ \A c \in Range(saves[i].df.columns) :
              \E r \in 1..Len(saves[i].df.rows) : c \in DOMAIN saves[i].df.rows[r]

\* batch_crawl saved a merged K-line table with the rows of two codes
C10_Witness ==
    \E i \in 1..Len(saves) :
        /\ saves[i].name = <<"all_kline_data">>
        /\ Len(saves[i].df.rows) >= 2
        /\ \E r1, r2 \in 1..Len(saves[i].df.rows) :
              saves[i].df.rows[r1].stock_code # saves[i].df.rows[r2].stock_code
        /\ Homogeneous(saves[i].df)

\* a direct _save_data call on a sheet table has ended
SheetDone == pc = "saved"

\* the 0-based positions of the columns of the table saved
SheetColumns == 0..(Len(call.df.columns) - 1)

\* C11 as stated: each width set for one of the first 26 columns is at least
\* the length of the column's header text, whatever that length is, and no
\* width is set for a column at index 26 or beyond.
C11_WidthAtLeastHeader ==
    SheetDone =>
        \A idx \in DOMAIN result.widths :
            /\ idx \in SheetColumns
            /\ idx < WidthColumns
            /\ result.widths[idx] >= HeaderLen(call.df.columns[idx + 1])

\* C11, amended: the medical _save_data, once it has written the sheet, sets a
\* width for exactly the columns at index 0..25; the width is never above 50,
\* it is at least the header length and the longest cell text when these are
\* at most 50, and it is 50, below the header length, for a longer header; the
\* financial _save_data sets no width.
C11_WidthAtLeastHeaderUpToCap ==
    SheetDone =>
        /\ DOMAIN result.widths =
              IF call.script = "medical" /\ "xlsx" \in Range(saves[1].written)
              THEN {idx \in SheetColumns : idx < WidthColumns} ELSE {}
        /\ \A idx \in DOMAIN result.widths :
              LET h == HeaderLen(call.df.columns[idx + 1])
                  w == result.widths[idx]
              IN  /\ w <= WidthCap
                  /\ h <= WidthCap => w >= h
                  /\ h > WidthCap => (w = WidthCap /\ w < h)
                  /\ \A r \in 1..Len(call.df.rows) :
                        LET m == StrLen(Cell(call.df, r, call.df.columns[idx + 1]))
                        IN  m <= WidthCap => w >= m

\* the medical _save_data wrote a sheet of more than 26 columns: the header of
\* a fitted column is longer than its cells, and a column beyond got no width
C11_Witness ==
    /\ SheetDone
    /\ call.script = "medical"
    /\ Len(call.df.columns) > WidthColumns
    /\ WidthColumns \notin DOMAIN result.widths
    /\ \E idx \in DOMAIN result.widths :
          /\ HeaderLen(call.df.columns[idx + 1]) = WidthCap
          /\ result.widths[idx] = WidthCap
          /\ \A r \in 1..Len(call.df.rows) :
                StrLen(Cell(call.df, r, call.df.columns[idx + 1])) < WidthCap - WidthPad


\* a direct _save_data call on a table of typed cells has ended
FilesDone == pc = "written"

\* csv.reader: the text of field k of line r
CsvRead(csv, r, k) == csv.lines[r][k].text

\* json.load, then str(): the text of a JSON value
JsonRead(j) == j.text

\* C12: after a persistence call that raised nothing, the CSV file and the
\* JSON file read back give as many rows as the table and, cell by cell, the
\* text of the cell; the JSON file has one object per row whose keys are the
\* columns, with the texts unescaped.
C12_RoundTrip ==
    (FilesDone /\ result.kind = "return") =>
        /\ {"csv", "json"} \subseteq DOMAIN result.files
        /\ Len(result.files["csv"].lines) = Len(call.df.rows)
        /\ result.files["csv"].header = call.df.columns
        /\ \A r \in 1..Len(call.df.rows), k \in 1..Len(call.df.columns) :
              CsvRead(result.files["csv"], r, k) = AsText(Cell(call.df, r, call.df.columns[k]))
        /\ Len(result.files["json"]) = Len(call.df.rows)
        /\ \A r \in 1..Len(call.df.rows) :
              /\ DOMAIN result.files["json"][r] = Range(call.df.columns)
              /\ \A c \in Range(call.df.columns) :
                    /\ JsonRead(result.files["json"][r][c]) = AsText(Cell(call.df, r, c))
                    /\ ~result.files["json"][r][c].escaped

\* the part of C12 about the financial script and floats of at most 10
\* decimal places
C12_FinancialShortFloats ==
    (/\ FilesDone
     /\ result.kind = "return"
     /\ call.script = "financial"
     /\ \A r \in 1..Len(call.df.rows), c \in Range(call.df.columns) :
           Cell(call.df, r, c) # Dec(MaxPlaces)) => C12_RoundTrip


\* C13: in every operation, between any two HTTP requests there is a sleep.
C13_SleepBetweenRequests ==
    Done =>
        \A q1 \in Events("request"), q2 \in Events("request") :
            q1 < q2 => \E sl \in Events("sleep") : q1 < sl /\ sl < q2

\* the part of C13 that holds: in batch_crawl, a fetch of one code that
\* raised nothing is followed by a sleep before the first request of the
\* next fetch
C13_SleepBetweenFetches ==
    (Done /\ call.op = "batch_crawl" /\ Events("caught") = {} /\ Events("passed") = {}) =>
        \A q1 \in Events("request"), q2 \in Events("request") :
            (q1 < q2 /\ trace[q2].what[1] # "hsgt") =>
                \E sl \in Events("sleep") : q1 < sl /\ sl < q2


\* the n-th smallest element of a set of positions
Nth(S, n) == CHOOSE x \in S : Cardinality({y \in S : y < x}) = n - 1

\* batch_crawl: the requests of the given kind issued for the i-th code of the
\* list, that is after the loop turned to it and before it turned to the next
RequestsFor(i, kind) ==
    {q \in Events("request") :
        /\ trace[q].what[1] = kind
        /\ Nth(Events("code"), i) < q
        /\ i < Cardinality(Events("code")) => q < Nth(Events("code"), i + 1)}

\* a fetch of that kind ("kline", "financial") returned a table to the loop
Got(kind) == \E i \in 1..Len(saves) : saves[i].name[1] = kind /\ saves[i].exc = "none"

Merged(name) == {i \in 1..Len(saves) : saves[i].name = <<name>>}

\* C14: batch_crawl turns to every code of the list once, in list order,
\* whatever fails; for a code it requests the K-line data once and then the
\* fund-flow data once, each when crawl_type asks for it; and after the last
\* code it reaches the merge step, where only a write failure makes it raise.
C14_BatchKeepsGoing ==
    (Done /\ call.op = "batch_crawl") =>
        /\ Cardinality(Events("code")) = Len(call.codes)
        /\ \A q \in Events("request") : \E c \in Events("code") : c < q
        /\ \A i \in 1..Len(call.codes) :
              /\ trace[Nth(Events("code"), i)].what = <<call.codes[i]>>
              /\ Cardinality(RequestsFor(i, "kline")) =
                    IF call.crawl_type \in {"all", "kline"} THEN 1 ELSE 0
              /\ Cardinality(RequestsFor(i, "fflow")) =
                    IF call.crawl_type \in {"all", "financial"} THEN 1 ELSE 0
              /\ \A q \in RequestsFor(i, "kline") \cup RequestsFor(i, "fflow") :
                    trace[q].what[3] = call.codes[i]
              /\ \A k \in RequestsFor(i, "kline"), f \in RequestsFor(i, "fflow") : k < f
        /\ Got("kline") => Merged("all_kline_data") # {}
        /\ (Got("financial") /\ \A i \in Merged("all_kline_data") : saves[i].exc = "none") =>
              Merged("all_financial_data") # {}
        /\ result.kind = "raise" =>
              /\ result.exc = "WriteError"
              /\ Len(saves) \in Merged("all_kline_data") \cup Merged("all_financial_data")
              /\ saves[Len(saves)].exc = "WriteError"

\* batch_crawl of type 'all' over two codes: the K-line fetch of the first
\* code met an error, the second code was fetched, the merge step was reached
C14_Witness ==
    /\ Done
    /\ call.op = "batch_crawl"
    /\ call.crawl_type = "all"
    /\ Len(call.codes) = 2
    /\ \E e \in Events("caught") : e < Nth(Events("code"), 2)
    /\ RequestsFor(2, "kline") # {}
    /\ RequestsFor(2, "fflow") # {}
    /\ Merged("all_financial_data") # {}


\* the kinds of the requests issued and the dataset kinds of the files written
RequestKinds == {trace[q].what[1] : q \in Events("request")}
SavedKinds == {saves[i].name[1] : i \in 1..Len(saves)} \cup {f.path[1][1] : f \in disk}

KlineKinds == {"kline", "all_kline_data"}
FinancialKinds == {"financial", "all_financial_data"}

\* C15: batch_crawl with 'kline' issues no fund-flow or backup request and
\* writes no financial_* or all_financial_data file; with 'financial' it issues
\* no K-line request and writes no kline_* or all_kline_data file; with 'all'
\* it fetches both for every code; with another value it requests and writes
\* nothing.
C15_HonoursCrawlType ==
    (Done /\ call.op = "batch_crawl") =>
        /\ call.crawl_type = "kline" =>
              /\ RequestKinds \subseteq {"kline"}
              /\ SavedKinds \subseteq KlineKinds
        /\ call.crawl_type = "financial" =>
              /\ RequestKinds \subseteq {"fflow", "hsgt"}
              /\ SavedKinds \subseteq FinancialKinds
        /\ call.crawl_type = "all" =>
              \A i \in 1..Len(call.codes) :
                  RequestsFor(i, "kline") # {} /\ RequestsFor(i, "fflow") # {}
        /\ call.crawl_type \in {"kline", "financial"} =>
              \A i \in 1..Len(call.codes) :
                  RequestsFor(i, IF call.crawl_type = "kline" THEN "kline" ELSE "fflow") # {}
        /\ call.crawl_type \notin {"all", "kline", "financial"} =>
              /\ RequestKinds = {}
              /\ saves = <<>>
              /\ disk = {}
              /\ result.kind = "return"

\* batch_crawl of type 'financial' over two codes wrote the merged financial
\* table and no K-line file
C15_Witness ==
    /\ Done
    /\ call.op = "batch_crawl"
    /\ call.crawl_type = "financial"
    /\ Len(call.codes) = 2
    /\ Merged("all_financial_data") # {}
    /\ \E f \in disk : f.path[1] = <<"all_financial_data">>
    /\ "kline" \notin RequestKinds


\* the tables the fetches of that kind returned to the loop of batch_crawl, in
\* order: a fetch returns the table of its persistence call that raised nothing
Fetches(kind) ==
    LET got == SelectSeq(saves, LAMBDA sv : sv.name[1] = kind /\ sv.exc = "none")
    IN  [i \in 1..Len(got) |-> got[i].df]

\* the persistence calls of the merged table `name` are one call, made after
\* every request, with the rows of the tables `frames` one after the other
MergedOnce(name, frames) ==
    /\ Cardinality(Merged(name)) = 1
    /\ \A i \in Merged(name) :
          /\ saves[i].df.rows = ConcatRows(frames)
          /\ Len(saves[i].df.rows) = TotalRecords(frames)
          /\ \A j \in 1..Len(saves) : saves[j].name[1] \in {"kline", "financial"} => j < i
    /\ \A sv \in Events("save"), q \in Events("request") :
          trace[sv].what = <<name>> => q < sv

\* C16 as stated: each merged table of batch_crawl is the concatenation, in
\* list order, of the non-empty tables the fetches returned; it is handed to
\* _save_data once, after all fetches, if and only if there is such a table.
C16_MergedIffAnyTable ==
    (Done /\ call.op = "batch_crawl") =>
        /\ IF Fetches("kline") # <<>>
           THEN MergedOnce("all_kline_data", Fetches("kline"))
           ELSE Merged("all_kline_data") = {}
        /\ IF Fetches("financial") # <<>>
           THEN MergedOnce("all_financial_data", Fetches("financial"))
           ELSE Merged("all_financial_data") = {}

\* C16, amended: the merged financial table is handed to _save_data if and
\* only if a financial fetch returned a table and the persistence call of the
\* merged K-line table, if there was one, raised nothing.
C16_MergedUnlessWriteFailed ==
    (Done /\ call.op = "batch_crawl") =>
        /\ IF Fetches("kline") # <<>>
           THEN MergedOnce("all_kline_data", Fetches("kline"))
           ELSE Merged("all_kline_data") = {}
        /\ IF /\ Fetches("financial") # <<>>
              /\ \A i \in Merged("all_kline_data") : saves[i].exc = "none"
           THEN MergedOnce("all_financial_data", Fetches("financial"))
           ELSE Merged("all_financial_data") = {}
        /\ (\E i \in Merged("all_kline_data") : saves[i].exc # "none") =>
              (result.kind = "raise" /\ result.exc = "WriteError")

\* batch_crawl over two codes merged the K-line tables of both and the
\* financial tables of both, and wrote both merged tables
C16_Witness ==
    /\ Done
    /\ call.op = "batch_crawl"
    /\ Len(Fetches("kline")) = 2
    /\ Len(Fetches("financial")) = 2
    /\ \E i \in Merged("all_kline_data") :
          /\ saves[i].exc = "none"
          /\ Len(saves[i].df.rows) = 2
          /\ saves[i].df.rows[1].stock_code = Text(call.codes[1])
          /\ saves[i].df.rows[2].stock_code = Text(call.codes[2])
    /\ \E i \in Merged("all_financial_data") :
          saves[i].exc = "none" /\ Len(saves[i].df.rows) = 2


\* the dataset names of the six stages of run_all, in the order of the stages
StageNames ==
    <<"nhc_statistics", "medical_news", "hospitals_enhanced",
      "disease_statistics_enhanced", "medical_policies_enhanced", "medical_research">>

CombinedName == "all_medical_data_combined"

\* the number of the stage that is running at position p of the trace
StageAt(p) == Cardinality({e \in Events("stage") : e < p})

\* the tables the stages returned to run_all, in order
StageTables ==
    LET got == SelectSeq(saves, LAMBDA sv : sv.name # <<CombinedName>> /\ sv.exc = "none")
    IN  [i \in 1..Len(got) |-> got[i].df]

\* the stages that ran did so in the fixed order, each once: the portal is
\* requested in stage 1 only, the news sites (each once) in stage 2 only, and a
\* stage persists its own table only, at most once
StagesInOrder ==
    /\ \A q \in Events("request") :
          StageAt(q) = (IF trace[q].what[1] = "nhc" THEN 1 ELSE 2)
    /\ Cardinality(Events("stage")) >= 2 =>
          Cardinality({q \in Events("request") : trace[q].what[1] = "news"}) = Len(NewsSources)
    /\ \A sv \in Events("save") :
          trace[sv].what \in {<<StageNames[StageAt(sv)]>>, <<CombinedName>>}
    /\ \A k \in 1..Len(StageNames) : Cardinality(Merged(StageNames[k])) <= 1
    /\ \A k \in 3..Len(StageNames) :
          Cardinality(Events("stage")) >= k => Merged(StageNames[k]) # {}

\* the combined table is persisted once, by the last persistence call, and
\* holds the rows of the non-empty stage tables, as many as total_records
CombinedLast ==
    /\ Merged(CombinedName) = {Len(saves)}
    /\ saves[Len(saves)].df.rows = ConcatRows(StageTables)
    /\ Len(saves[Len(saves)].df.rows) = TotalRecords(StageTables)
    /\ \A sv \in Events("save") :
          trace[sv].what = <<CombinedName>> =>
              /\ StageAt(sv) = Len(StageNames)
              /\ \E t \in Events("info") \cup Events("warning") :
                    trace[t].what = <<"target">> /\ t < sv

\* C17 as stated: run_all runs its six stages once each in the fixed order,
\* whatever a stage fetched, and then persists the combined table, last and
\* once, with the rows of the non-empty stage tables.
C17_SixStagesThenCombined ==
    (Done /\ call.op = "run_all") =>
        /\ Cardinality(Events("stage")) = Len(StageNames)
        /\ StagesInOrder
        /\ CombinedLast

\* C17, amended: the stages run in the fixed order until a persistence call
\* of a stage raises, which ends run_all with that exception; when none does,
\* all six stages run once each and the combined table is persisted, last and
\* once, with the rows of the non-empty stage tables.
C17_StagesUntilWriteFails ==
    (Done /\ call.op = "run_all") =>
        /\ StagesInOrder
        /\ IF \E i \in 1..Len(saves) : saves[i].name # <<CombinedName>> /\ saves[i].exc # "none"
           THEN /\ result.kind = "raise"
                /\ result.exc = "WriteError"
                /\ saves[Len(saves)].exc = "WriteError"
                /\ saves[Len(saves)].name = <<StageNames[Cardinality(Events("stage"))]>>
                /\ Merged(CombinedName) = {}
           ELSE /\ Cardinality(Events("stage")) = Len(StageNames)
                /\ CombinedLast

\* run_all got no rows from the portal and the news sites, ran the four other
\* stages and persisted the combined table of their rows
C17_Witness ==
    /\ Done
    /\ call.op = "run_all"
    /\ result.kind = "return"
    /\ Merged(StageNames[1]) = {}
    /\ Merged(StageNames[2]) = {}
    /\ Cardinality(Events("stage")) = Len(StageNames)
    /\ Len(StageTables) = 4
    /\ Merged(CombinedName) = {Len(saves)}
    /\ saves[Len(saves)].exc = "none"


\* get_nhc_statistics: the n-th request of the call, its category, its page
\* and what the portal answered
NhcRequest(n) == trace[Nth(Events("request"), n)].what
NhcAnswer(n) == Answer(call.answers, n)

\* the rows page n yields: the list items that have a link and a title, when
\* the page answers 200
Yield(n) ==
    IF NhcAnswer(n).status = "200"
    THEN Len(SelectSeq(NhcAnswer(n).items, LAMBDA it : it = "ok")) ELSE 0

\* a page that answers 200 and yields no row
LastPage(n) == NhcAnswer(n).status = "200" /\ Yield(n) = 0

CategoryAfter(cat) ==
    IF cat = Categories[1] THEN <<Categories[2]>>
    ELSE IF cat = Categories[2] THEN <<Categories[3]>> ELSE <<>>

\* the request that follows a request of page `page` of category `cat`: the
\* next page, or page 1 of the next category when the category is left
NextPage(cat, page, leave) ==
    IF ~leave /\ page < call.max_pages THEN <<"nhc", cat, page + 1>>
    ELSE IF CategoryAfter(cat) # <<>> THEN <<"nhc", CategoryAfter(cat)[1], 1>>
    ELSE <<>>

\* the table the call built: the one it handed to _save_data, if any
NhcTable == IF saves = <<>> THEN EmptyFrame ELSE saves[1].df

\* C18: get_nhc_statistics issues at most max_pages requests for each of the
\* three categories; the pages of a category are requested in increasing
\* order from 1; a page that answers 200 without rows ends its category, a
\* page that fails does not; every row of every page is in the table.
C18_PagesBounded ==
    (Done /\ call.op = "get_nhc_statistics") =>
        LET n == Cardinality(Events("request"))
        IN  /\ n <= Len(Categories) * call.max_pages
            /\ \A c \in Range(Categories) :
                  Cardinality({k \in 1..n : NhcRequest(k)[2] = c}) <= call.max_pages
            /\ call.max_pages >= 1 => (n >= 1 /\ NhcRequest(1) = <<"nhc", Categories[1], 1>>)
            /\ \A k \in 1..n :
                  LET next == NextPage(NhcRequest(k)[2], NhcRequest(k)[3], LastPage(k))
                  IN  IF k < n THEN NhcRequest(k + 1) = next ELSE next = <<>>
            /\ \A c \in Range(Categories) :
                  Cardinality({r \in 1..Len(NhcTable.rows) : NhcTable.rows[r].category = Text(c)})
                      = Cardinality(UNION {{<<k, i>> : i \in 1..Yield(k)} :
                                              k \in {j \in 1..n : NhcRequest(j)[2] = c}})
            /\ Len(saves) <= 1
            /\ result.kind = "return" => result.df = NhcTable

\* with max_pages = 2, a page failed after a page with rows, a page without
\* rows ended a category, and the call returned the rows gathered
C18_Witness ==
    /\ Done
    /\ call.op = "get_nhc_statistics"
    /\ call.max_pages = 2
    /\ Yield(1) > 0
    /\ NhcAnswer(2).status \in {"exc", "404"}
    /\ \E k \in 1..Cardinality(Events("request")) : LastPage(k)
    /\ result.kind = "return"
    /\ Len(result.df.rows) >= Yield(1)
    /\ Cardinality(Events("request")) >= 4


\* the first response of get_financial_data gives no fund-flow row: it fails
\* in transport, cannot be parsed, lacks klines, or has no record of at least
\* MinFields fields
ObtainsNoFlow(resp) ==
    \/ resp.status # "200"
    \/ resp.kind # "data"
    \/ \A i \in 1..Len(resp.items) : Len(resp.items[i]) < MinFields
    \/ \E i \in 1..Len(resp.items) : FlowUnparsable(resp.items[i])

\* C19: when get_financial_data obtains no fund-flow rows, the one row it
\* returns has the status "failed"; when it returns fund-flow rows, they are
\* at most 10, those of the last 10 klines entries in their order.
C19_FailedRowUnlessFlow ==
    (Done /\ call.op = "get_financial_data" /\ result.kind = "return") =>
        /\ ObtainsNoFlow(call.resp) =>
              /\ Len(result.df.rows) = 1
              /\ Cell(result.df, 1, "status") = Text("failed")
        /\ "main_net" \in Range(result.df.columns) =>
              LET kept == KeptRecords(call.resp.items)
              IN  /\ ~ObtainsNoFlow(call.resp)
                  /\ Len(result.df.rows) <= RecentN
                  /\ Len(result.df.rows) = Len(kept)
                  /\ \A i \in 1..Len(kept), k \in 2..Len(FlowColumns) :
                        Cell(result.df, i, FlowColumns[k]) = Num(FlowValue(kept[i][k]))

\* the part of C19 that holds: a row with a status other than "failed" is
\* returned only after the backup request answered 200
C19_QueriedOnlyAfterBackup ==
    (/\ Done
     /\ call.op = "get_financial_data"
     /\ result.kind = "return"
     /\ "main_net" \notin Range(result.df.columns)) =>
        /\ Len(result.df.rows) = 1
        /\ Cell(result.df, 1, "status") \in {Text("queried"), Text("failed")}
        /\ Cell(result.df, 1, "status") = Text("queried") =>
              (call.resp.status \notin {"exc", "404"} /\ call.resp2.status = "200")
        /\ (NoWriteFailed /\ call.resp.status \notin {"exc", "404"}
                /\ call.resp2.status = "200") =>
              Cell(result.df, 1, "status") = Text("queried")


\* run_all reached its summary: no stage raised
Summarised == \A i \in 1..Len(saves) : saves[i].name # <<CombinedName>> => saves[i].exc = "none"

\* the positions where run_all logged that the target was reached / missed
TargetLogged(level) == {t \in Events(level) : trace[t].what = <<"target">>}

\* C20: in every run of run_all that reaches its summary, total_records is at
\* least 1000: the 'target reached' message is logged, the warning never.
C20_TargetAlwaysReached ==
    (Done /\ call.op = "run_all") =>
        /\ TargetLogged("warning") = {}
        /\ Summarised =>
              /\ TotalRecords(StageTables) >= Target
              /\ Cardinality(TargetLogged("info")) = 1

\* run_all got no rows from the network, drew the smallest counts or the
\* largest, and logged that the target was reached
C20_Witness ==
    /\ Done
    /\ call.op = "run_all"
    /\ Summarised
    /\ \A q \in Events("request") : \E e \in Events("caught") : e = q + 1
    /\ Merged(StageNames[1]) = {}
    /\ Merged(StageNames[2]) = {}
    /\ TotalRecords(StageTables) >= Target
    /\ TargetLogged("info") # {}

\* a pass of the loop body of get_disease_statistics_enhanced has ended
RecordDone == pc = "generated"

\* C21: every disease record has 0 <= deaths <= floor(5% of cases) and
\* floor(70% of cases) <= cured <= floor(95% of cases), hence deaths + cured
\* <= cases, for every case count of 1000..50000; and the table of the
\* operation has len(years) * 24 * 12 rows, one per (year, disease, month).
C21_CountsWithinShares ==
    /\ RecordDone =>
          LET row == result.df.rows[1]
          IN  /\ row.cases.num \in MinCases..MaxCases
              /\ 0 <= row.deaths.num
              /\ row.deaths.num <= PctOfExact(row.cases.num, 5)
              /\ PctOfExact(row.cases.num, 70) <= row.cured.num
              /\ row.cured.num <= PctOfExact(row.cases.num, 95)
              /\ row.deaths.num + row.cured.num <= row.cases.num
    /\ (Done /\ call.op = "get_disease_statistics_enhanced" /\ result.kind = "return") =>
          LET rows == result.df.rows
          IN  /\ Len(rows) = Len(call.years) * NumDiseases * NumMonths
              /\ Cardinality({<<rows[i].year.num, rows[i].disease.num, rows[i].month.num>> :
                                 i \in 1..Len(rows)}) = Len(rows)

\* supporting C21: what holds of every record is the claim with the lower end
\* of the cured range one less, and the table half as stated
C21_CountsWithinRoundedShares ==
    /\ RecordDone =>
          LET row == result.df.rows[1]
          IN  /\ 0 <= row.deaths.num
              /\ row.deaths.num <= PctOfExact(row.cases.num, 5)
              /\ PctOfExact(row.cases.num, 70) - 1 <= row.cured.num
              /\ row.cured.num <= PctOfExact(row.cases.num, 95)
              /\ row.deaths.num + row.cured.num <= row.cases.num
    /\ (Done /\ call.op = "get_disease_statistics_enhanced" /\ result.kind = "return") =>
          LET rows == result.df.rows
          IN  /\ Len(rows) = Len(call.years) * NumDiseases * NumMonths
              /\ Cardinality({<<rows[i].year.num, rows[i].disease.num, rows[i].month.num>> :
                                 i \in 1..Len(rows)}) = Len(rows)

\* get_medical_policies_enhanced has returned a table
PoliciesReturned ==
    Done /\ call.op = "get_medical_policies_enhanced" /\ result.kind = "return"

\* year and month of a date YYYY-MM-DD held as the number YYYYMMDD
YearOf(d) == d \div 10000
MonthOf(d) == (d \div 100) % 100

\* the first day of the calendar month that follows the month of date d
FollowingMonth(d) ==
    IF MonthOf(d) < 12 THEN DateNum(<<YearOf(d), MonthOf(d) + 1, 1>>)
    ELSE DateNum(<<YearOf(d) + 1, 1, 1>>)

\* C22: in every policy row of get_medical_policies_enhanced the
\* implementation date is not earlier than the publication date: it is the
\* first day of the calendar month following the publication month.
C22_EffectiveNotBeforePublished ==
    PoliciesReturned =>
        \A i \in 1..Len(result.df.rows) :
            LET row == result.df.rows[i]
            IN  /\ row.effective_date.num >= row.publish_date.num
                /\ row.effective_date.num = FollowingMonth(row.publish_date.num)

\* supporting C22: the claim holds of every row published before December; a
\* row published in December is implemented on the first of January of the
\* year of its publication
C22_EffectiveFollowsUnlessDecember ==
    PoliciesReturned =>
        \A i \in 1..Len(result.df.rows) :
            LET row == result.df.rows[i]
            IN  IF MonthOf(row.publish_date.num) < 12
                THEN /\ row.effective_date.num >= row.publish_date.num
                     /\ row.effective_date.num = FollowingMonth(row.publish_date.num)
                ELSE /\ row.effective_date.num = DateNum(<<YearOf(row.publish_date.num), 1, 1>>)
                     /\ row.effective_date.num < row.publish_date.num

=============================================================================
